---- MODULE Spec2Model ----
(***************************************************************************)
(* A model of the editing core of CLI-Editor (src/src/main.rs): the line   *)
(* buffer, the undo/redo command log, cursor and viewport arithmetic, and  *)
(* the pane/workspace composition driven by key events.                    *)
(*                                                                         *)
(* Conventions.  Rows, columns and pane indices are 0-based as in the      *)
(* source; TLA+ sequences are 1-based, so element i of a Vec or String is  *)
(* s[i + 1].  A String is a sequence of one-character strings (ASCII, one  *)
(* byte per character).  A Rust panic ends the process: the action sets    *)
(* status to "panicked" and nothing else moves afterwards.  Rendering      *)
(* state (needs_full_redraw, show_line_numbers) and terminal failures are  *)
(* not modelled.                                                           *)
(***************************************************************************)
EXTENDS Integers, Sequences, FiniteSets, TLC

\* ------------------------------------------------------------------ bounds
\* key events processed in one run of the editor
MaxKeys == 5
\* key events of a run that only edits one pane
MaxPaneKeys == 5
\* calls made by the harness of the document primitives
MaxPrimOps == 2
\* largest row and column handed to a document primitive
MaxCoord == 2
\* terminal height reported by terminal::size()
Height == 5

\* key events of a run that searches a document
MaxSearchKeys == 7
\* the longest line given to highlight_line
MaxHlLen == 4
\* the largest cursor row, offset and visible-row budget given to adjust_scroll
MaxRow == 4
\* the longest line of a document handed to search
MaxLineLen == 2
\* the longest accumulator handed to push_token
MaxWordLen == 3
\* key events of a run that opens files
MaxOpenKeys == 5

\* the characters typed in normal mode and into the search prompt
Chars == {"a"}
NL == "\n"

\* --------------------------------------------------- String / Vec helpers
\* String::insert(idx, ch) and Vec::insert(idx, e), for idx <= len
SeqInsert(s, idx, e) == SubSeq(s, 1, idx) \o <<e>> \o SubSeq(s, idx + 1, Len(s))

\* String::remove(idx) and Vec::remove(idx), for idx < len
SeqRemove(s, idx) == SubSeq(s, 1, idx) \o SubSeq(s, idx + 2, Len(s))

\* String::truncate(new_len): no effect when new_len >= len
Truncate(s, new_len) == IF new_len >= Len(s) THEN s ELSE SubSeq(s, 1, new_len)

\* &s[col..], for col <= len
SliceFrom(s, col) == SubSeq(s, col + 1, Len(s))

\* buffer.lines[row]
LineAt(lines, row) == lines[row + 1]

SetLine(lines, row, line) == [lines EXCEPT ![row + 1] = line]

Ok(lines) == [panic |-> FALSE, lines |-> lines]

Panic(lines) == [panic |-> TRUE, lines |-> lines]

\* ------------------------------------------------------------ EditCommand
NoLine == <<>>

InsertChar(row, col, ch) ==
  [kind |-> "InsertChar", row |-> row, col |-> col, ch |-> ch,
   deleted_line |-> NoLine, old_content |-> <<>>]

DeleteChar(row, col, ch) ==
  [kind |-> "DeleteChar", row |-> row, col |-> col, ch |-> ch,
   deleted_line |-> NoLine, old_content |-> <<>>]

InsertNewline(row, col) ==
  [kind |-> "InsertNewline", row |-> row, col |-> col, ch |-> "",
   deleted_line |-> NoLine, old_content |-> <<>>]

DeleteNewline(row, deleted_line) ==
  [kind |-> "DeleteNewline", row |-> row, col |-> 0, ch |-> "",
   deleted_line |-> deleted_line, old_content |-> <<>>]

ClearAll(old_content) ==
  [kind |-> "ClearAll", row |-> 0, col |-> 0, ch |-> "",
   deleted_line |-> NoLine, old_content |-> old_content]

\* EditCommand::undo whose InsertChar guard is off by one: the last character
\* of a line is not removed
EditCommand_undo_strict_guard(cmd, lines, oc) ==
  LET row == cmd.row
      col == cmd.col
  IN CASE cmd.kind = "InsertChar" ->
            IF row < Len(lines) /\ col + 1 < Len(LineAt(lines, row))
            THEN Ok(SetLine(lines, row, SeqRemove(LineAt(lines, row), col)))
            ELSE Ok(lines)
       [] cmd.kind = "DeleteChar" ->
            IF row < Len(lines)
            THEN IF col > Len(LineAt(lines, row))
                 THEN Panic(lines)
                 ELSE Ok(SetLine(lines, row, SeqInsert(LineAt(lines, row), col, cmd.ch)))
            ELSE Ok(lines)
       [] cmd.kind = "InsertNewline" ->
            IF row + 1 < Len(lines)
            THEN LET line == LineAt(lines, row + 1)
                     rest == SeqRemove(lines, row + 1)
                 IN Ok(SetLine(rest, row, LineAt(rest, row) \o line))
            ELSE Ok(lines)
       [] cmd.kind = "DeleteNewline" ->
            IF row < Len(lines)
            THEN LET current_len == Len(LineAt(lines, row))
                     deleted_len == Len(cmd.deleted_line)
                 IN IF current_len < deleted_len
                    THEN IF oc
                         THEN Panic(lines)
                         ELSE Ok(SeqInsert(lines, row + 1, cmd.deleted_line))
                    ELSE Ok(SeqInsert(
                              SetLine(lines, row,
                                      Truncate(LineAt(lines, row), current_len - deleted_len)),
                              row + 1, cmd.deleted_line))
            ELSE Ok(lines)
       [] cmd.kind = "ClearAll" -> Ok(cmd.old_content)

\* EditCommand::undo.  oc: the build checks integer overflow (debug profile);
\* without it current_len - deleted_len wraps and truncate does nothing.
EditCommand_undo(cmd, lines, oc) ==
  LET row == cmd.row
      col == cmd.col
  IN CASE cmd.kind = "InsertChar" ->
            IF row < Len(lines) /\ col < Len(LineAt(lines, row))
            THEN Ok(SetLine(lines, row, SeqRemove(LineAt(lines, row), col)))
            ELSE Ok(lines)
       [] cmd.kind = "DeleteChar" ->
            IF row < Len(lines)
            THEN IF col > Len(LineAt(lines, row))
                 THEN Panic(lines)
                 ELSE Ok(SetLine(lines, row, SeqInsert(LineAt(lines, row), col, cmd.ch)))
            ELSE Ok(lines)
       [] cmd.kind = "InsertNewline" ->
            IF row + 1 < Len(lines)
            THEN LET line == LineAt(lines, row + 1)
                     rest == SeqRemove(lines, row + 1)
                 IN Ok(SetLine(rest, row, LineAt(rest, row) \o line))
            ELSE Ok(lines)
       [] cmd.kind = "DeleteNewline" ->
            IF row < Len(lines)
            THEN LET current_len == Len(LineAt(lines, row))
                     deleted_len == Len(cmd.deleted_line)
                 IN IF current_len < deleted_len
                    THEN IF oc
                         THEN Panic(lines)
                         ELSE Ok(SeqInsert(lines, row + 1, cmd.deleted_line))
                    ELSE Ok(SeqInsert(
                              SetLine(lines, row,
                                      Truncate(LineAt(lines, row), current_len - deleted_len)),
                              row + 1, cmd.deleted_line))
            ELSE Ok(lines)
       [] cmd.kind = "ClearAll" -> Ok(cmd.old_content)

\* EditCommand::redo
EditCommand_redo(cmd, lines) ==
  LET row == cmd.row
      col == cmd.col
  IN CASE cmd.kind = "InsertChar" ->
            IF row < Len(lines)
            THEN IF col > Len(LineAt(lines, row))
                 THEN Panic(lines)
                 ELSE Ok(SetLine(lines, row, SeqInsert(LineAt(lines, row), col, cmd.ch)))
            ELSE Ok(lines)
       [] cmd.kind = "DeleteChar" ->
            IF row < Len(lines) /\ col < Len(LineAt(lines, row))
            THEN Ok(SetLine(lines, row, SeqRemove(LineAt(lines, row), col)))
            ELSE Ok(lines)
       [] cmd.kind = "InsertNewline" ->
            IF row < Len(lines)
            THEN IF col > Len(LineAt(lines, row))
                 THEN Panic(lines)
                 ELSE LET new_line == SliceFrom(LineAt(lines, row), col)
                      IN Ok(SeqInsert(
                              SetLine(lines, row, Truncate(LineAt(lines, row), col)),
                              row + 1, new_line))
            ELSE Ok(lines)
       [] cmd.kind = "DeleteNewline" ->
            IF row > 0 /\ row < Len(lines)
            THEN LET line == LineAt(lines, row)
                     rest == SeqRemove(lines, row)
                 IN Ok(SetLine(rest, row - 1, LineAt(rest, row - 1) \o line))
            ELSE Ok(lines)
       [] cmd.kind = "ClearAll" -> Ok(<< <<>> >>)

\* ------------------------------------------------------------- TextBuffer
\* TextBuffer::new
TextBuffer_new == << <<>> >>

\* str::lines: split at "\n"; a final line ending adds no empty last line
RECURSIVE str_lines(_, _)
str_lines(content, cur) ==
  IF content = <<>>
  THEN IF cur = <<>> THEN <<>> ELSE <<cur>>
  ELSE IF Head(content) = NL
       THEN <<cur>> \o str_lines(Tail(content), <<>>)
       ELSE str_lines(Tail(content), Append(cur, Head(content)))

\* from_string without the fallback to one empty line
from_string_no_fallback(content) == str_lines(content, <<>>)

\* TextBuffer::from_string
from_string(content) ==
  LET lines == str_lines(content, <<>>)
  IN IF lines = <<>> THEN << <<>> >> ELSE lines

\* TextBuffer::to_string: lines.join("\n")
RECURSIVE to_string(_)
to_string(lines) ==
  IF Len(lines) = 1
  THEN lines[1]
  ELSE lines[1] \o <<NL>> \o to_string(Tail(lines))

\* TextBuffer::insert_char
insert_char(lines, row, col, ch) ==
  IF row < Len(lines)
  THEN IF col > Len(LineAt(lines, row))
       THEN Panic(lines)
       ELSE Ok(SetLine(lines, row, SeqInsert(LineAt(lines, row), col, ch)))
  ELSE Ok(lines)

\* TextBuffer::delete_char (the returned Option<char> is not kept)
delete_char(lines, row, col) ==
  IF row < Len(lines) /\ col > 0 /\ col <= Len(LineAt(lines, row))
  THEN Ok(SetLine(lines, row, SeqRemove(LineAt(lines, row), col - 1)))
  ELSE Ok(lines)

\* insert_newline that does not truncate the line it splits
insert_newline_keep_tail(lines, row, col) ==
  IF row < Len(lines)
  THEN IF col > Len(LineAt(lines, row))
       THEN Panic(lines)
       ELSE Ok(SeqInsert(lines, row + 1, SliceFrom(LineAt(lines, row), col)))
  ELSE Ok(lines)

\* TextBuffer::insert_newline
insert_newline(lines, row, col) ==
  IF row < Len(lines)
  THEN IF col > Len(LineAt(lines, row))
       THEN Panic(lines)
       ELSE LET new_line == SliceFrom(LineAt(lines, row), col)
            IN Ok(SeqInsert(SetLine(lines, row, Truncate(LineAt(lines, row), col)),
                            row + 1, new_line))
  ELSE Ok(lines)

\* TextBuffer::delete_newline (the returned Option<String> is not kept)
delete_newline(lines, row) ==
  IF row > 0 /\ row < Len(lines)
  THEN LET line == LineAt(lines, row)
           rest == SeqRemove(lines, row)
       IN Ok(SetLine(rest, row - 1, LineAt(rest, row - 1) \o line))
  ELSE Ok(lines)

\* TextBuffer::delete_newline, the Option<String> it returns
delete_newline_result(lines, row) ==
  IF row > 0 /\ row < Len(lines)
  THEN [some |-> TRUE, v |-> LineAt(lines, row)]
  ELSE [some |-> FALSE, v |-> <<>>]

\* TextBuffer::line_count
line_count(lines) == Len(lines)

\* TextBuffer::get_line(row).map(|l| l.len()).unwrap_or(0)
line_len_or_0(lines, row) == IF row < Len(lines) THEN Len(LineAt(lines, row)) ELSE 0

\* ------------------------------------------------------------------- Pane
None == [some |-> FALSE, v |-> <<>>]

Some(v) == [some |-> TRUE, v |-> v]

\* Pane::new
Pane_new ==
  [buffer |-> TextBuffer_new,
   cursor |-> [x |-> 0, y |-> 0],
   offset_y |-> 0,
   undo_stack |-> <<>>,
   redo_stack |-> <<>>,
   current_file |-> None,
   modified |-> FALSE,
   search_query |-> <<>>,
   last_search_pos |-> None,
   language |-> "Plain"]

POk(p) == [panic |-> FALSE, pane |-> p]

PPanic(p) == [panic |-> TRUE, pane |-> p]

\* Vec::pop
Last(s) == s[Len(s)]

Front(s) == SubSeq(s, 1, Len(s) - 1)

\* Pane::execute_command that keeps the redo stack
execute_command_keep_redo(p, cmd) ==
  LET r == EditCommand_redo(cmd, p.buffer)
  IN IF r.panic
     THEN PPanic(p)
     ELSE POk([p EXCEPT !.buffer = r.lines,
                        !.undo_stack = Append(p.undo_stack, cmd),
                        !.modified = TRUE])

\* Pane::execute_command
execute_command(p, cmd) ==
  LET r == EditCommand_redo(cmd, p.buffer)
  IN IF r.panic
     THEN PPanic(p)
     ELSE POk([p EXCEPT !.buffer = r.lines,
                        !.undo_stack = Append(p.undo_stack, cmd),
                        !.redo_stack = <<>>,
                        !.modified = TRUE])

\* Pane::undo that forgets to recompute modified
Pane_undo_stale_flag(p, oc) ==
  IF p.undo_stack = <<>>
  THEN POk(p)
  ELSE LET command == Last(p.undo_stack)
           r == EditCommand_undo(command, p.buffer, oc)
       IN IF r.panic
          THEN PPanic(p)
          ELSE POk([p EXCEPT !.buffer = r.lines,
                             !.undo_stack = Front(p.undo_stack),
                             !.redo_stack = Append(p.redo_stack, command)])

\* Pane::undo
Pane_undo(p, oc) ==
  IF p.undo_stack = <<>>
  THEN POk(p)
  ELSE LET command == Last(p.undo_stack)
           r == EditCommand_undo(command, p.buffer, oc)
       IN IF r.panic
          THEN PPanic(p)
          ELSE POk([p EXCEPT !.buffer = r.lines,
                             !.undo_stack = Front(p.undo_stack),
                             !.redo_stack = Append(p.redo_stack, command),
                             !.modified = (Front(p.undo_stack) # <<>>)])

\* Pane::redo that forgets to set modified
Pane_redo_stale_flag(p) ==
  IF p.redo_stack = <<>>
  THEN POk(p)
  ELSE LET command == Last(p.redo_stack)
           r == EditCommand_redo(command, p.buffer)
       IN IF r.panic
          THEN PPanic(p)
          ELSE POk([p EXCEPT !.buffer = r.lines,
                             !.redo_stack = Front(p.redo_stack),
                             !.undo_stack = Append(p.undo_stack, command)])

\* Pane::redo
Pane_redo(p) ==
  IF p.redo_stack = <<>>
  THEN POk(p)
  ELSE LET command == Last(p.redo_stack)
           r == EditCommand_redo(command, p.buffer)
       IN IF r.panic
          THEN PPanic(p)
          ELSE POk([p EXCEPT !.buffer = r.lines,
                             !.redo_stack = Front(p.redo_stack),
                             !.undo_stack = Append(p.undo_stack, command),
                             !.modified = TRUE])

\* adjust_scroll that scrolls down one row too few
adjust_scroll_short(p, visible_lines) ==
  IF p.cursor.y < p.offset_y
  THEN [p EXCEPT !.offset_y = p.cursor.y]
  ELSE IF p.cursor.y >= p.offset_y + visible_lines
       THEN [p EXCEPT !.offset_y = p.cursor.y - visible_lines]
       ELSE p

\* Pane::adjust_scroll
adjust_scroll(p, visible_lines) ==
  IF p.cursor.y < p.offset_y
  THEN [p EXCEPT !.offset_y = p.cursor.y]
  ELSE IF p.cursor.y >= p.offset_y + visible_lines
       THEN [p EXCEPT !.offset_y = p.cursor.y - visible_lines + 1]
       ELSE p

\* adjust_scroll: the usize subtraction cursor.y - visible_lines of the
\* scroll-down branch would go below zero
adjust_scroll_underflows(p, visible_lines) ==
  /\ ~(p.cursor.y < p.offset_y)
  /\ p.cursor.y >= p.offset_y + visible_lines
  /\ p.cursor.y - visible_lines < 0

\* ---------------------------------------- key handlers on the active pane
\* process_normal_mode, KeyCode::Char(c)
OnChar(p, c) ==
  LET r == execute_command(p, InsertChar(p.cursor.y, p.cursor.x, c))
  IN IF r.panic
     THEN r
     ELSE POk([r.pane EXCEPT !.cursor.x = r.pane.cursor.x + 1])

TabWidth == 4

\* process_normal_mode, KeyCode::Tab: for _ in 0..4 { execute InsertChar ' ' }
RECURSIVE TabLoop(_, _)
TabLoop(p, n) ==
  IF n = 0
  THEN POk(p)
  ELSE LET r == OnChar(p, " ")
       IN IF r.panic THEN PPanic(p) ELSE TabLoop(r.pane, n - 1)

OnTab(p) == TabLoop(p, TabWidth)

\* process_normal_mode, KeyCode::Enter
OnEnter(p, visible_lines) ==
  LET r == execute_command(p, InsertNewline(p.cursor.y, p.cursor.x))
  IN IF r.panic
     THEN r
     ELSE POk(adjust_scroll([r.pane EXCEPT !.cursor = [x |-> 0, y |-> p.cursor.y + 1]],
                            visible_lines))

\* process_normal_mode, KeyCode::Backspace
OnBackspace(p, visible_lines) ==
  IF p.cursor.x > 0
  THEN IF p.cursor.y < Len(p.buffer) /\ p.cursor.x - 1 < Len(LineAt(p.buffer, p.cursor.y))
       THEN LET ch == LineAt(p.buffer, p.cursor.y)[p.cursor.x]
                r == execute_command(p, DeleteChar(p.cursor.y, p.cursor.x - 1, ch))
            IN IF r.panic
               THEN r
               ELSE POk([r.pane EXCEPT !.cursor.x = p.cursor.x - 1])
       ELSE POk(p)
  ELSE IF p.cursor.y > 0
       THEN LET prev_line_len == line_len_or_0(p.buffer, p.cursor.y - 1)
            IN IF p.cursor.y < Len(p.buffer)
               THEN LET deleted_line == LineAt(p.buffer, p.cursor.y)
                        r == execute_command(p, DeleteNewline(p.cursor.y, deleted_line))
                    IN IF r.panic
                       THEN r
                       ELSE POk(adjust_scroll(
                                  [r.pane EXCEPT !.cursor = [x |-> prev_line_len,
                                                             y |-> p.cursor.y - 1]],
                                  visible_lines))
               ELSE POk(p)
       ELSE POk(p)

\* process_normal_mode, KeyCode::Left
OnLeft(p, visible_lines) ==
  IF p.cursor.x > 0
  THEN [p EXCEPT !.cursor.x = p.cursor.x - 1]
  ELSE IF p.cursor.y > 0
       THEN adjust_scroll([p EXCEPT !.cursor = [x |-> line_len_or_0(p.buffer, p.cursor.y - 1),
                                                y |-> p.cursor.y - 1]],
                          visible_lines)
       ELSE p

\* process_normal_mode, KeyCode::Right
OnRight(p, visible_lines) ==
  IF p.cursor.y < Len(p.buffer)
  THEN IF p.cursor.x < Len(LineAt(p.buffer, p.cursor.y))
       THEN [p EXCEPT !.cursor.x = p.cursor.x + 1]
       ELSE IF p.cursor.y < line_count(p.buffer) - 1
            THEN adjust_scroll([p EXCEPT !.cursor = [x |-> 0, y |-> p.cursor.y + 1]],
                               visible_lines)
            ELSE p
  ELSE p

\* the column clamp of Up and Down
ClampX(p, y) ==
  LET line_len == line_len_or_0(p.buffer, y)
  IN [x |-> IF p.cursor.x > line_len THEN line_len ELSE p.cursor.x, y |-> y]

\* process_normal_mode, KeyCode::Up
OnUp(p, visible_lines) ==
  IF p.cursor.y > 0
  THEN adjust_scroll([p EXCEPT !.cursor = ClampX(p, p.cursor.y - 1)], visible_lines)
  ELSE p

\* KeyCode::Down without the test for the last row
OnDown_unguarded(p, visible_lines) ==
  adjust_scroll([p EXCEPT !.cursor = ClampX(p, p.cursor.y + 1)], visible_lines)

\* process_normal_mode, KeyCode::Down
OnDown(p, visible_lines) ==
  IF p.cursor.y < line_count(p.buffer) - 1
  THEN adjust_scroll([p EXCEPT !.cursor = ClampX(p, p.cursor.y + 1)], visible_lines)
  ELSE p

\* process_normal_mode, KeyCode::Home
OnHome(p) == [p EXCEPT !.cursor.x = 0]

\* process_normal_mode, KeyCode::End
OnEnd(p) ==
  IF p.cursor.y < Len(p.buffer)
  THEN [p EXCEPT !.cursor.x = Len(LineAt(p.buffer, p.cursor.y))]
  ELSE p

Min(a, b) == IF a < b THEN a ELSE b

\* usize::saturating_sub
saturating_sub(a, b) == IF a < b THEN 0 ELSE a - b

\* process_normal_mode, KeyCode::PageUp
OnPageUp(p, visible_lines) ==
  adjust_scroll([p EXCEPT !.cursor.y = saturating_sub(p.cursor.y, visible_lines)],
                visible_lines)

\* process_normal_mode, KeyCode::PageDown
OnPageDown(p, visible_lines) ==
  adjust_scroll([p EXCEPT !.cursor.y = Min(p.cursor.y + visible_lines,
                                           line_count(p.buffer) - 1)],
                visible_lines)

\* ------------------------------------------------------ TextBuffer::search
\* str::find: 0-based index of the first occurrence of q in s, or -1
RECURSIVE FindFrom(_, _, _)
FindFrom(s, q, i) ==
  IF i + Len(q) > Len(s)
  THEN -1
  ELSE IF SubSeq(s, i + 1, i + Len(q)) = q THEN i ELSE FindFrom(s, q, i + 1)

Find(s, q) == FindFrom(s, q, 0)

NotFound == [panic |-> FALSE, found |-> FALSE, row |-> 0, col |-> 0]

Found(row, col) == [panic |-> FALSE, found |-> TRUE, row |-> row, col |-> col]

SearchPanic == [panic |-> TRUE, found |-> FALSE, row |-> 0, col |-> 0]

\* second loop of search: for row in 0..=start_row
RECURSIVE SearchWrap(_, _, _, _, _)
SearchWrap(lines, query, row, start_row, start_col) ==
  IF row > start_row
  THEN NotFound
  ELSE IF row >= Len(lines)
       THEN SearchPanic
       ELSE LET end_col == IF row = start_row THEN start_col ELSE Len(LineAt(lines, row))
            IN IF end_col > Len(LineAt(lines, row))
               THEN SearchPanic
               ELSE LET col == Find(SubSeq(LineAt(lines, row), 1, end_col), query)
                    IN IF col >= 0
                       THEN Found(row, col)
                       ELSE SearchWrap(lines, query, row + 1, start_row, start_col)

\* first loop of search: for row in start_row..self.lines.len()
RECURSIVE SearchForward(_, _, _, _, _)
SearchForward(lines, query, row, start_row, start_col) ==
  IF row >= Len(lines)
  THEN SearchWrap(lines, query, 0, start_row, start_col)
  ELSE LET search_col == IF row = start_row THEN start_col ELSE 0
       IN IF search_col > Len(LineAt(lines, row))
          THEN SearchPanic
          ELSE LET col == Find(SliceFrom(LineAt(lines, row), search_col), query)
               IN IF col >= 0
                  THEN Found(row, search_col + col)
                  ELSE SearchForward(lines, query, row + 1, start_row, start_col)

\* search whose scan begins one column after the start position
search_after_start(lines, query, start_row, start_col) ==
  IF query = <<>>
  THEN NotFound
  ELSE SearchForward(lines, query, start_row, start_row, start_col + 1)

\* TextBuffer::search
search(lines, query, start_row, start_col) ==
  IF query = <<>>
  THEN NotFound
  ELSE SearchForward(lines, query, start_row, start_row, start_col)

\* the start position that restarts at the last match instead of after it
search_start_at_match(p) ==
  IF p.last_search_pos.some
  THEN <<p.last_search_pos.v[1], p.last_search_pos.v[2]>>
  ELSE <<p.cursor.y, p.cursor.x>>

\* perform_search, the start position
search_start(p) ==
  IF p.last_search_pos.some
  THEN LET row == p.last_search_pos.v[1]
           col == p.last_search_pos.v[2]
       IN IF col + 1 < line_len_or_0(p.buffer, row)
          THEN <<row, col + 1>>
          ELSE IF row + 1 < line_count(p.buffer)
               THEN <<row + 1, 0>>
               ELSE <<0, 0>>
  ELSE <<p.cursor.y, p.cursor.x>>

\* perform_search on the active pane, for a non-empty input_buffer
PaneSearch(p, query, visible_lines) ==
  LET q == [p EXCEPT !.search_query = query]
      start_pos == search_start(q)
      res == search(q.buffer, query, start_pos[1], start_pos[2])
  IN IF res.panic
     THEN PPanic(p)
     ELSE IF res.found
          THEN POk(adjust_scroll([q EXCEPT !.cursor = [x |-> res.col, y |-> res.row],
                                           !.last_search_pos = Some(<<res.row, res.col>>)],
                                 visible_lines))
          ELSE POk([q EXCEPT !.last_search_pos = None])

\* --------------------------------------------------------------- Language
\* char::to_lowercase on the letters used here
to_lowercase(ch) == IF ch = "C" THEN "c" ELSE ch

\* Language::from_extension
from_extension(ext) ==
  LET e == [i \in 1..Len(ext) |-> to_lowercase(ext[i])]
  IN CASE e = <<"r", "s">> -> "Rust"
       [] e = <<"p", "y">> -> "Python"
       [] e \in {<<"j", "s">>, <<"j", "s", "x">>, <<"t", "s">>, <<"t", "s", "x">>} -> "JavaScript"
       [] e \in {<<"c">>, <<"h">>, <<"c", "p", "p">>, <<"h", "p", "p">>, <<"c", "c">>} -> "C"
       [] e \in {<<"s", "h">>, <<"b", "a", "s", "h">>} -> "Bash"
       [] OTHER -> "Plain"

\* index (1-based) of the last "." of name, or 0
RECURSIVE LastDot(_, _)
LastDot(name, i) ==
  IF i = 0 THEN 0 ELSE IF name[i] = "." THEN i ELSE LastDot(name, i - 1)

\* Path::extension of a file name without directory part: the text after the
\* last ".", none when there is no "." or the only "." starts the name
path_extension(name) ==
  LET d == LastDot(name, Len(name))
  IN IF name = <<".", ".">> \/ d <= 1
     THEN None
     ELSE Some(SubSeq(name, d + 1, Len(name)))

\* ------------------------------------------------------ SyntaxHighlighter
\* a text (a sequence of one-character strings) as a string, to compare it
\* with the words of the keyword and type tables
RECURSIVE Str(_)
Str(s) == IF s = <<>> THEN "" ELSE Head(s) \o Str(Tail(s))

\* Language::keywords
keywords(language) ==
  CASE language = "Rust" -> {
        "fn", "let", "mut", "const", "static", "if", "else", "match", "for",
        "while", "loop", "break", "continue", "return", "struct", "enum",
        "trait", "impl", "pub", "use", "mod", "crate", "self", "super", "as",
        "move", "ref", "unsafe", "async", "await", "dyn", "where", "type",
        "in"}
    [] language = "Python" -> {
        "def", "class", "if", "elif", "else", "for", "while", "break",
        "continue", "return", "try", "except", "finally", "with", "as",
        "import", "from", "pass", "raise", "assert", "lambda", "yield",
        "async", "await", "global", "nonlocal", "True", "False", "None",
        "and", "or", "not", "in", "is"}
    [] language = "JavaScript" -> {
        "function", "const", "let", "var", "if", "else", "for", "while",
        "break", "continue", "return", "class", "extends", "super", "this",
        "new", "try", "catch", "finally", "throw", "async", "await",
        "import", "export", "from", "default", "switch", "case", "typeof",
        "instanceof", "delete", "void", "yield"}
    [] language = "C" -> {
        "int", "char", "float", "double", "void", "struct", "union", "enum",
        "if", "else", "for", "while", "do", "break", "continue", "return",
        "switch", "case", "default", "sizeof", "typedef", "static", "const",
        "extern", "auto", "register", "volatile", "unsigned", "signed",
        "long", "short"}
    [] language = "Bash" -> {
        "if", "then", "else", "elif", "fi", "for", "while", "do", "done",
        "case", "esac", "function", "return", "exit", "break", "continue",
        "local", "export", "source", "alias", "echo", "read", "test"}
    [] language = "Plain" -> {}

\* Language::types
types(language) ==
  CASE language = "Rust" -> {
        "i8", "i16", "i32", "i64", "i128", "isize", "u8", "u16", "u32",
        "u64", "u128", "usize", "f32", "f64", "bool", "char", "str",
        "String", "Vec", "Option", "Result", "Box", "Rc", "Arc", "Cell",
        "RefCell"}
    [] language = "C" -> {
        "int", "char", "float", "double", "void", "size_t", "uint8_t",
        "uint16_t", "uint32_t"}
    [] OTHER -> {}

Digits == {"0", "1", "2", "3", "4", "5", "6", "7", "8", "9"}

Letters == {
  "a", "b", "c", "d", "e", "f", "g", "h", "i", "j", "k", "l", "m", "n", "o",
  "p", "q", "r", "s", "t", "u", "v", "w", "x", "y", "z", "A", "B", "C", "D",
  "E", "F", "G", "H", "I", "J", "K", "L", "M", "N", "O", "P", "Q", "R", "S",
  "T", "U", "V", "W", "X", "Y", "Z"}

\* char::is_numeric, on ASCII
is_numeric(ch) == ch \in Digits

\* char::is_alphanumeric, on ASCII
is_alphanumeric(ch) == ch \in Letters \/ ch \in Digits

\* chars.peek() after the character at index i (0-based): "" when there is none
Peek(line, i) == IF i + 1 < Len(line) THEN line[i + 2] ELSE ""

\* SyntaxHighlighter::is_comment_start
is_comment_start(language, ch, next) ==
  CASE language \in {"Rust", "C", "JavaScript"} -> ch = "/" /\ next \in {"/", "*"}
    [] language \in {"Python", "Bash"} -> ch = "#"
    [] language = "Plain" -> FALSE

Token(text, type) == [text |-> text, type |-> type]

\* token.chars().all(|c| c.is_numeric() || c == '.')
AllNumericOrDot(s) == \A k \in 1..Len(s) : is_numeric(s[k]) \/ s[k] = "."

\* SyntaxHighlighter::push_token
push_token(language, tokens, token) ==
  LET token_type == IF Str(token) \in keywords(language) THEN "Keyword"
                    ELSE IF Str(token) \in types(language) THEN "Type"
                    ELSE IF AllNumericOrDot(token) THEN "Number"
                    ELSE "Normal"
  IN Append(tokens, Token(token, token_type))

\* if !current.is_empty() { self.push_token(&mut tokens, current.clone()); current.clear(); }
Flush(language, st) ==
  IF st.current # <<>>
  THEN [st EXCEPT !.tokens = push_token(language, st.tokens, st.current),
                  !.current = <<>>]
  ELSE st

\* the grave accent, the third quote character of highlight_line: a TLA+
\* string cannot hold it, so it is written as a symbol of its own
Backtick == "<grave>"

\* the scanner's variables before the first character
HlStart ==
  [tokens |-> <<>>, current |-> <<>>, in_string |-> FALSE, string_char |-> " ",
   in_comment |-> FALSE]

\* current.chars().rev().nth(1): the character before the last one, "" if none
SecondLast(s) == IF Len(s) >= 2 THEN s[Len(s) - 1] ELSE ""

\* the while loop of highlight_line from the character at index i (0-based)
RECURSIVE HlLoop(_, _, _, _)
HlLoop(language, line, i, st) ==
  IF i >= Len(line)
  THEN st
  ELSE LET ch == line[i + 1]
           next == Peek(line, i)
       IN IF ~st.in_string /\ is_comment_start(language, ch, next)
          THEN LET f == Flush(language, st)
               IN IF next \in {"/", "*"}
                  THEN HlLoop(language, line, i + 2,
                              [f EXCEPT !.in_comment = TRUE, !.current = <<ch, next>>])
                  ELSE HlLoop(language, line, i + 1,
                              [f EXCEPT !.in_comment = TRUE, !.current = <<ch>>])
          ELSE IF st.in_comment
          THEN HlLoop(language, line, i + 1, [st EXCEPT !.current = Append(st.current, ch)])
          ELSE IF ch \in {"\"", "'", Backtick} /\ ~st.in_string
          THEN LET f == Flush(language, st)
               IN HlLoop(language, line, i + 1,
                         [f EXCEPT !.in_string = TRUE, !.string_char = ch,
                                   !.current = <<ch>>])
          ELSE IF st.in_string
          THEN LET cur == Append(st.current, ch)
               IN IF ch = st.string_char /\ SecondLast(cur) # "\\"
                  THEN HlLoop(language, line, i + 1,
                              [st EXCEPT !.tokens = Append(st.tokens, Token(cur, "String")),
                                         !.current = <<>>,
                                         !.in_string = FALSE])
                  ELSE HlLoop(language, line, i + 1, [st EXCEPT !.current = cur])
          ELSE IF is_numeric(ch) /\ (st.current = <<>> \/ AllNumericOrDot(st.current))
          THEN HlLoop(language, line, i + 1, [st EXCEPT !.current = Append(st.current, ch)])
          ELSE IF is_alphanumeric(ch) \/ ch = "_"
          THEN HlLoop(language, line, i + 1, [st EXCEPT !.current = Append(st.current, ch)])
          ELSE LET f == Flush(language, st)
               IN HlLoop(language, line, i + 1,
                         [f EXCEPT !.tokens = Append(f.tokens, Token(<<ch>>, "Normal"))])

\* highlight_line that forgets the text of a string that is not closed
highlight_line_drop_open_string(language, line) ==
  IF language = "Plain"
  THEN <<Token(line, "Normal")>>
  ELSE LET st == HlLoop(language, line, 0, HlStart)
       IN IF st.in_comment
          THEN Append(st.tokens, Token(st.current, "Comment"))
          ELSE IF st.in_string
               THEN st.tokens
               ELSE IF st.current # <<>>
                    THEN push_token(language, st.tokens, st.current)
                    ELSE st.tokens

\* SyntaxHighlighter::highlight_line
highlight_line(language, line) ==
  IF language = "Plain"
  THEN <<Token(line, "Normal")>>
  ELSE LET st == HlLoop(language, line, 0, HlStart)
       IN IF st.in_comment
          THEN Append(st.tokens, Token(st.current, "Comment"))
          ELSE IF st.in_string
               THEN Append(st.tokens, Token(st.current, "String"))
               ELSE IF st.current # <<>>
                    THEN push_token(language, st.tokens, st.current)
                    ELSE st.tokens

\* ----------------------------------------------------------------- Editor
VARIABLES
  panes,               \* Editor.panes
  active_pane,         \* Editor.active_pane
  split_mode,          \* Editor.split_mode
  should_quit,         \* Editor.should_quit
  mode,                \* Editor.mode
  input_buffer,        \* Editor.input_buffer
  message,             \* Editor.message
  quit_warning_shown,  \* Editor.quit_warning_shown
  status,              \* main_loop: "running", "exited", "io_error", "panicked"
  overflow_checks,     \* the build panics on integer overflow (debug profile)
  keys,                \* number of key events process_keypress has read
  hist,                \* harness: what the run has done so far (buffers, logged keys or results)
  phase                \* harness: the kind of run and, where it has stages, the stage

vars == <<panes, active_pane, split_mode, should_quit, mode, input_buffer,
          message, quit_warning_shown, status, overflow_checks, keys, hist, phase>>

NoMessage == "None"

\* the keys typed into the file-name prompts, and what a read can return
NameChars == {"c"}

\* the file name given on the command line
ArgNames == {<<"c">>}

FileContents == {<<>>, <<"a", NL, "b", NL, "a">>}

\* the outcome of fs::read_to_string: an error or the file's content
ReadResults == {[ok |-> FALSE, content |-> <<>>]} \cup
               {[ok |-> TRUE, content |-> c] : c \in FileContents}

IoOk(p) == [err |-> FALSE, pane |-> p]

IoErr(p) == [err |-> TRUE, pane |-> p]

\* open_file that resets the pane before it reads the file
open_file_reset_first(p, filename, read) ==
  LET cleared == [p EXCEPT !.buffer = TextBuffer_new,
                           !.cursor = [x |-> 0, y |-> 0],
                           !.offset_y = 0,
                           !.undo_stack = <<>>,
                           !.redo_stack = <<>>,
                           !.modified = FALSE]
  IN IF ~read.ok
     THEN IoErr(cleared)
     ELSE IoOk([cleared EXCEPT !.buffer = from_string(read.content),
                               !.current_file = Some(filename)])

\* Editor::open_file on the active pane p; read is what fs::read_to_string returns
open_file(p, filename, read) ==
  IF ~read.ok
  THEN IoErr(p)
  ELSE LET ext == path_extension(filename)
       IN IoOk([p EXCEPT !.buffer = from_string(read.content),
                         !.current_file = Some(filename),
                         !.modified = FALSE,
                         !.cursor = [x |-> 0, y |-> 0],
                         !.offset_y = 0,
                         !.undo_stack = <<>>,
                         !.redo_stack = <<>>,
                         !.language = IF ext.some
                                      THEN from_extension(ext.v)
                                      ELSE p.language])

\* Editor::save_file_as on the active pane p; write_ok is the outcome of fs::write
save_file_as(p, filename, write_ok) ==
  IF ~write_ok
  THEN IoErr(p)
  ELSE IoOk([p EXCEPT !.current_file = Some(filename), !.modified = FALSE])

\* Editor::save_file on an active pane p that has a current_file
save_file(p, write_ok) ==
  IF ~write_ok
  THEN IoErr(p)
  ELSE IoOk([p EXCEPT !.modified = FALSE])

\* main: Editor::new(), then open_file(args[1]) when a file name is given
\* (a failed read only prints to stderr), then run()
Main ==
  /\ active_pane = 0
  /\ split_mode = "None"
  /\ should_quit = FALSE
  /\ mode = "Normal"
  /\ input_buffer = <<>>
  /\ quit_warning_shown = FALSE
  /\ status = "running"
  /\ \E name \in ArgNames \cup {<<>>}, read \in ReadResults :
       LET r == open_file(Pane_new, name, read)
       IN IF name = <<>> \/ r.err
          THEN panes = <<Pane_new>> /\ message = NoMessage
          ELSE panes = <<r.pane>> /\ message = "Opened"
  /\ overflow_checks \in BOOLEAN
  /\ keys = 0

Init ==
  /\ Main
  /\ hist = <<>>
  /\ phase = "editor"

\* Editor::active_pane
ActivePane == panes[active_pane + 1]

\* active_pane_mut that always takes the first pane
SetActive_first(p) == [panes EXCEPT ![1] = p]

\* Editor::active_pane_mut, assignment through it
SetActive(p) == [panes EXCEPT ![active_pane + 1] = p]

\* Editor::calculate_visible_lines
calculate_visible_lines(height) ==
  CASE split_mode = "None" -> height - 2
    [] split_mode = "Horizontal" -> (height - 3) \div 2
    [] split_mode = "Vertical" -> height - 2

VisibleLines == calculate_visible_lines(Height)

\* main_loop is about to call process_keypress
Running == status = "running" /\ ~should_quit

\* a key handled in normal mode by the active pane alone: r is the handler's
\* result, msg the new message
NormalKey(r, msg) ==
  /\ Running
  /\ mode = "Normal"
  /\ IF r.panic
     THEN /\ status' = "panicked"
          /\ UNCHANGED <<panes, active_pane, split_mode, should_quit, mode,
                         input_buffer, message, quit_warning_shown, overflow_checks>>
     ELSE /\ panes' = SetActive(r.pane)
          /\ message' = msg
          /\ UNCHANGED <<active_pane, split_mode, should_quit, mode, input_buffer,
                         quit_warning_shown, status, overflow_checks>>

Key_Char(c) == NormalKey(OnChar(ActivePane, c), NoMessage)

Key_Tab == NormalKey(OnTab(ActivePane), NoMessage)

Key_Enter == NormalKey(OnEnter(ActivePane, VisibleLines), NoMessage)

Key_Backspace == NormalKey(OnBackspace(ActivePane, VisibleLines), NoMessage)

Key_Left == NormalKey(POk(OnLeft(ActivePane, VisibleLines)), message)

Key_Right == NormalKey(POk(OnRight(ActivePane, VisibleLines)), message)

Key_Up == NormalKey(POk(OnUp(ActivePane, VisibleLines)), message)

Key_Down == NormalKey(POk(OnDown(ActivePane, VisibleLines)), message)

Key_Home == NormalKey(POk(OnHome(ActivePane)), message)

Key_End == NormalKey(POk(OnEnd(ActivePane)), message)

Key_PageUp == NormalKey(POk(OnPageUp(ActivePane, VisibleLines)), message)

Key_PageDown == NormalKey(POk(OnPageDown(ActivePane, VisibleLines)), message)

\* Ctrl-Z
Key_Undo == NormalKey(Pane_undo(ActivePane, overflow_checks), message)

\* Ctrl-Y
Key_Redo == NormalKey(Pane_redo(ActivePane), message)

\* Ctrl-Q that quits at once, whatever the pane holds
Key_Quit_no_warning ==
  /\ Running
  /\ mode = "Normal"
  /\ should_quit' = TRUE
  /\ UNCHANGED <<message, quit_warning_shown>>
  /\ UNCHANGED <<panes, active_pane, split_mode, mode, input_buffer, status,
                 overflow_checks>>

\* Ctrl-Q
Key_Quit ==
  /\ Running
  /\ mode = "Normal"
  /\ IF ActivePane.modified /\ ~quit_warning_shown
     THEN /\ message' = "File modified"
          /\ quit_warning_shown' = TRUE
          /\ UNCHANGED should_quit
     ELSE /\ should_quit' = TRUE
          /\ UNCHANGED <<message, quit_warning_shown>>
  /\ UNCHANGED <<panes, active_pane, split_mode, mode, input_buffer, status,
                 overflow_checks>>

\* Ctrl-S: self.save_file()?; an Err leaves process_normal_mode, process_keypress
\* and main_loop through the ? operators
Key_Save(write_ok) ==
  /\ Running
  /\ mode = "Normal"
  /\ IF ActivePane.current_file.some
     THEN LET r == save_file(ActivePane, write_ok)
          IN IF r.err
             THEN /\ status' = "io_error"
                  /\ UNCHANGED <<panes, message, mode, input_buffer>>
             ELSE /\ panes' = SetActive(r.pane)
                  /\ message' = "Saved"
                  /\ UNCHANGED <<mode, input_buffer, status>>
     ELSE /\ mode' = "SavePrompt"
          /\ input_buffer' = <<>>
          /\ message' = "Enter filename"
          /\ UNCHANGED <<panes, status>>
  /\ UNCHANGED <<active_pane, split_mode, should_quit, quit_warning_shown,
                 overflow_checks>>

\* Ctrl-O
Key_Open ==
  /\ Running
  /\ mode = "Normal"
  /\ mode' = "OpenPrompt"
  /\ input_buffer' = <<>>
  /\ message' = "Open file"
  /\ UNCHANGED <<panes, active_pane, split_mode, should_quit, quit_warning_shown,
                 status, overflow_checks>>

\* Ctrl-F: start_search
Key_Search ==
  /\ Running
  /\ mode = "Normal"
  /\ mode' = "Search"
  /\ input_buffer' = <<>>
  /\ message' = "Search"
  /\ UNCHANGED <<panes, active_pane, split_mode, should_quit, quit_warning_shown,
                 status, overflow_checks>>

\* Editor::perform_search with self.input_buffer = query, followed by newMode
PerformSearch(query, newMode) ==
  IF query = <<>>
  THEN /\ message' = "Search cancelled"
       /\ mode' = newMode
       /\ input_buffer' = query
       /\ UNCHANGED <<panes, status>>
  ELSE LET r == PaneSearch(ActivePane, query, VisibleLines)
       IN IF r.panic
          THEN /\ status' = "panicked"
               /\ UNCHANGED <<panes, message, mode, input_buffer>>
          ELSE /\ panes' = SetActive(r.pane)
               /\ message' = IF r.pane.last_search_pos.some THEN "Found" ELSE "Not found"
               /\ mode' = newMode
               /\ input_buffer' = query
               /\ UNCHANGED status

\* Ctrl-N: find_next
Key_FindNext ==
  /\ Running
  /\ mode = "Normal"
  /\ IF ActivePane.search_query # <<>>
     THEN PerformSearch(ActivePane.search_query, "Normal")
     ELSE UNCHANGED <<panes, message, mode, input_buffer, status>>
  /\ UNCHANGED <<active_pane, split_mode, should_quit, quit_warning_shown,
                 overflow_checks>>

\* split_horizontal / split_vertical without the test of the pane count
Split_unbounded(kind) ==
  /\ Running
  /\ mode = "Normal"
  /\ panes' = Append(panes, Pane_new)
  /\ split_mode' = kind
  /\ UNCHANGED <<active_pane, should_quit, mode, input_buffer, message,
                 quit_warning_shown, status, overflow_checks>>

\* a split that pushes a copy of the active pane
Split_clone(kind) ==
  /\ Running
  /\ mode = "Normal"
  /\ IF Len(panes) < 2
     THEN /\ panes' = Append(panes, ActivePane)
          /\ split_mode' = kind
     ELSE UNCHANGED <<panes, split_mode>>
  /\ UNCHANGED <<active_pane, should_quit, mode, input_buffer, message,
                 quit_warning_shown, status, overflow_checks>>

\* Editor::split_horizontal / split_vertical
Split(kind) ==
  /\ Running
  /\ mode = "Normal"
  /\ IF Len(panes) < 2
     THEN /\ panes' = Append(panes, Pane_new)
          /\ split_mode' = kind
     ELSE UNCHANGED <<panes, split_mode>>
  /\ UNCHANGED <<active_pane, should_quit, mode, input_buffer, message,
                 quit_warning_shown, status, overflow_checks>>

\* Ctrl-\
Key_SplitHorizontal == Split("Horizontal")

\* Ctrl-/
Key_SplitVertical == Split("Vertical")

\* close_split that leaves the split mode as it is
Key_CloseSplit_keep_mode ==
  /\ Running
  /\ mode = "Normal"
  /\ IF Len(panes) > 1
     THEN /\ panes' = SeqRemove(panes, active_pane)
          /\ active_pane' = IF active_pane >= Len(panes')
                            THEN Len(panes') - 1
                            ELSE active_pane
     ELSE UNCHANGED <<panes, active_pane>>
  /\ UNCHANGED <<split_mode, should_quit, mode, input_buffer, message,
                 quit_warning_shown, status, overflow_checks>>

\* close_split that removes the last pane instead of the active one
Key_CloseSplit_last ==
  /\ Running
  /\ mode = "Normal"
  /\ IF Len(panes) > 1
     THEN /\ panes' = SeqRemove(panes, Len(panes) - 1)
          /\ active_pane' = IF active_pane >= Len(panes')
                            THEN Len(panes') - 1
                            ELSE active_pane
          /\ split_mode' = "None"
     ELSE UNCHANGED <<panes, active_pane, split_mode>>
  /\ UNCHANGED <<should_quit, mode, input_buffer, message, quit_warning_shown,
                 status, overflow_checks>>

\* Ctrl-X: close_split
Key_CloseSplit ==
  /\ Running
  /\ mode = "Normal"
  /\ IF Len(panes) > 1
     THEN /\ panes' = SeqRemove(panes, active_pane)
          /\ active_pane' = IF active_pane >= Len(panes')
                            THEN Len(panes') - 1
                            ELSE active_pane
          /\ split_mode' = "None"
     ELSE UNCHANGED <<panes, active_pane, split_mode>>
  /\ UNCHANGED <<should_quit, mode, input_buffer, message, quit_warning_shown,
                 status, overflow_checks>>

\* next_pane that always goes to the last pane
Key_NextPane_last ==
  /\ Running
  /\ mode = "Normal"
  /\ IF Len(panes) > 1
     THEN active_pane' = Len(panes) - 1
     ELSE UNCHANGED active_pane
  /\ UNCHANGED <<panes, split_mode, should_quit, mode, input_buffer, message,
                 quit_warning_shown, status, overflow_checks>>

\* Ctrl-W: next_pane
Key_NextPane ==
  /\ Running
  /\ mode = "Normal"
  /\ IF Len(panes) > 1
     THEN active_pane' = (active_pane + 1) % Len(panes)
     ELSE UNCHANGED active_pane
  /\ UNCHANGED <<panes, split_mode, should_quit, mode, input_buffer, message,
                 quit_warning_shown, status, overflow_checks>>

\* ----------------------------------------------------------- prompt modes
\* KeyCode::Char(c) in process_search_mode / _save_prompt / _open_prompt
Prompt_Char(m, c) ==
  /\ Running
  /\ mode = m
  /\ input_buffer' = Append(input_buffer, c)
  /\ UNCHANGED <<panes, active_pane, split_mode, should_quit, mode, message,
                 quit_warning_shown, status, overflow_checks>>

\* KeyCode::Backspace in the three prompts: input_buffer.pop()
Prompt_Backspace(m) ==
  /\ Running
  /\ mode = m
  /\ input_buffer' = IF input_buffer = <<>> THEN <<>> ELSE Front(input_buffer)
  /\ UNCHANGED <<panes, active_pane, split_mode, should_quit, mode, message,
                 quit_warning_shown, status, overflow_checks>>

\* KeyCode::Esc in the three prompts
Prompt_Esc(m, msg) ==
  /\ Running
  /\ mode = m
  /\ mode' = "Normal"
  /\ message' = msg
  /\ UNCHANGED <<panes, active_pane, split_mode, should_quit, input_buffer,
                 quit_warning_shown, status, overflow_checks>>

Search_Char(c) == Prompt_Char("Search", c)

Search_Backspace == Prompt_Backspace("Search")

Search_Esc == Prompt_Esc("Search", "Search cancelled")

\* process_search_mode, KeyCode::Enter
Search_Enter ==
  /\ Running
  /\ mode = "Search"
  /\ PerformSearch(input_buffer, "Normal")
  /\ UNCHANGED <<active_pane, split_mode, should_quit, quit_warning_shown,
                 overflow_checks>>

Save_Char(c) == Prompt_Char("SavePrompt", c)

Save_Backspace == Prompt_Backspace("SavePrompt")

Save_Esc == Prompt_Esc("SavePrompt", "Save cancelled")

\* process_save_prompt, KeyCode::Enter
Save_Enter(write_ok) ==
  /\ Running
  /\ mode = "SavePrompt"
  /\ IF input_buffer # <<>>
     THEN LET r == save_file_as(ActivePane, input_buffer, write_ok)
          IN /\ panes' = SetActive(r.pane)
             /\ message' = IF r.err THEN "Error saving" ELSE "Saved"
     ELSE UNCHANGED <<panes, message>>
  /\ mode' = "Normal"
  /\ UNCHANGED <<active_pane, split_mode, should_quit, input_buffer,
                 quit_warning_shown, status, overflow_checks>>

Open_Char(c) == Prompt_Char("OpenPrompt", c)

Open_Backspace == Prompt_Backspace("OpenPrompt")

Open_Esc == Prompt_Esc("OpenPrompt", "Open cancelled")

\* process_open_prompt, KeyCode::Enter
Open_Enter(read) ==
  /\ Running
  /\ mode = "OpenPrompt"
  /\ IF input_buffer # <<>>
     THEN LET r == open_file(ActivePane, input_buffer, read)
          IN /\ panes' = SetActive(r.pane)
             /\ message' = IF r.err THEN "Error opening" ELSE "Opened"
     ELSE UNCHANGED <<panes, message>>
  /\ mode' = "Normal"
  /\ UNCHANGED <<active_pane, split_mode, should_quit, input_buffer,
                 quit_warning_shown, status, overflow_checks>>

\* main_loop: if self.should_quit { break }
MainLoopExit ==
  /\ status = "running"
  /\ should_quit
  /\ status' = "exited"
  /\ UNCHANGED <<panes, active_pane, split_mode, should_quit, mode, input_buffer,
                 message, quit_warning_shown, overflow_checks, keys, hist, phase>>

\* process_keypress: one key event read and dispatched by mode
Key(A) ==
  /\ keys < MaxKeys
  /\ keys' = keys + 1
  /\ A
  /\ UNCHANGED <<hist, phase>>

Next ==
  \/ \E c \in Chars : Key(Key_Char(c))
  \/ Key(Key_Tab)
  \/ Key(Key_Enter)
  \/ Key(Key_Backspace)
  \/ Key(Key_Left)
  \/ Key(Key_Right)
  \/ Key(Key_Up)
  \/ Key(Key_Down)
  \/ Key(Key_Home)
  \/ Key(Key_End)
  \/ Key(Key_PageUp)
  \/ Key(Key_PageDown)
  \/ Key(Key_Undo)
  \/ Key(Key_Redo)
  \/ Key(Key_Quit)
  \/ \E write_ok \in BOOLEAN : Key(Key_Save(write_ok))
  \/ Key(Key_Open)
  \/ Key(Key_Search)
  \/ Key(Key_FindNext)
  \/ Key(Key_SplitHorizontal)
  \/ Key(Key_SplitVertical)
  \/ Key(Key_CloseSplit)
  \/ Key(Key_NextPane)
  \/ \E c \in Chars : Key(Search_Char(c))
  \/ Key(Search_Backspace)
  \/ Key(Search_Esc)
  \/ Key(Search_Enter)
  \/ \E c \in NameChars : Key(Save_Char(c))
  \/ Key(Save_Backspace)
  \/ Key(Save_Esc)
  \/ \E write_ok \in BOOLEAN : Key(Save_Enter(write_ok))
  \/ \E c \in NameChars : Key(Open_Char(c))
  \/ Key(Open_Backspace)
  \/ Key(Open_Esc)
  \/ \E read \in ReadResults : Key(Open_Enter(read))
  \/ MainLoopExit

Spec == Init /\ [][Next]_vars

\* ------------------------------------------- one pane: edit, move, undo, redo
\* the characters typed when only one pane is edited
PaneChars == {"a", "b"}

PaneKey(A) ==
  /\ keys < MaxPaneKeys
  /\ keys' = keys + 1
  /\ A
  /\ UNCHANGED <<hist, phase>>

NextPane ==
  \/ \E c \in PaneChars : PaneKey(Key_Char(c))
  \/ PaneKey(Key_Tab)
  \/ PaneKey(Key_Enter)
  \/ PaneKey(Key_Backspace)
  \/ PaneKey(Key_Left)
  \/ PaneKey(Key_Right)
  \/ PaneKey(Key_Up)
  \/ PaneKey(Key_Down)
  \/ PaneKey(Key_Home)
  \/ PaneKey(Key_End)
  \/ PaneKey(Key_PageUp)
  \/ PaneKey(Key_PageDown)
  \/ PaneKey(Key_Undo)
  \/ PaneKey(Key_Redo)

SpecPane == Init /\ [][NextPane]_vars

\* --------------- a sequence of commands, then undo each, then redo each
InitUndoRedo ==
  /\ Main
  /\ hist = <<panes[1].buffer>>
  /\ phase = "exec"

\* an editing or cursor key while the sequence is being executed; hist gets
\* the buffer after each command that execute_command ran
UR_Exec(A) ==
  /\ phase = "exec"
  /\ keys < MaxPaneKeys
  /\ keys' = keys + 1
  /\ A
  /\ hist' = IF Len(panes'[1].undo_stack) > Len(panes[1].undo_stack)
             THEN Append(hist, panes'[1].buffer)
             ELSE hist
  /\ UNCHANGED phase

\* Ctrl-Z, once per command
UR_Undo ==
  /\ phase \in {"exec", "undo"}
  /\ ActivePane.undo_stack # <<>>
  /\ Key_Undo
  /\ phase' = "undo"
  /\ UNCHANGED <<hist, keys>>

\* Ctrl-Y, once per command, after every command was undone
UR_Redo ==
  /\ phase \in {"undo", "redo"}
  /\ phase = "undo" => ActivePane.undo_stack = <<>>
  /\ ActivePane.redo_stack # <<>>
  /\ Key_Redo
  /\ phase' = "redo"
  /\ UNCHANGED <<hist, keys>>

NextUndoRedo ==
  \/ \E c \in PaneChars : UR_Exec(Key_Char(c))
  \/ UR_Exec(Key_Enter)
  \/ UR_Exec(Key_Backspace)
  \/ UR_Exec(Key_Left)
  \/ UR_Exec(Key_Right)
  \/ UR_Exec(Key_Up)
  \/ UR_Exec(Key_Down)
  \/ UR_Exec(Key_Home)
  \/ UR_Exec(Key_End)
  \/ UR_Undo
  \/ UR_Redo

SpecUndoRedo == InitUndoRedo /\ [][NextUndoRedo]_vars

\* ------------------- the document primitives called with any coordinates
Coords == 0..MaxCoord

InitPrim ==
  /\ Main
  /\ hist = <<>>
  /\ phase = "prim"

\* one call r on the buffer of pane 0: a panic ends the process
PrimCall(r) ==
  /\ status = "running"
  /\ keys < MaxPrimOps
  /\ keys' = keys + 1
  /\ IF r.panic
     THEN status' = "panicked" /\ UNCHANGED panes
     ELSE panes' = [panes EXCEPT ![1].buffer = r.lines] /\ UNCHANGED status
  /\ UNCHANGED <<active_pane, split_mode, should_quit, mode, input_buffer, message,
                 quit_warning_shown, overflow_checks, hist, phase>>

Prim_insert_char(row, col, ch) == PrimCall(insert_char(panes[1].buffer, row, col, ch))

Prim_delete_char(row, col) == PrimCall(delete_char(panes[1].buffer, row, col))

Prim_insert_newline(row, col) == PrimCall(insert_newline(panes[1].buffer, row, col))

Prim_delete_newline(row) == PrimCall(delete_newline(panes[1].buffer, row))

\* the commands of the four kinds with any coordinates
PrimCommands ==
  {InsertChar(row, col, ch) : row \in Coords, col \in Coords, ch \in PaneChars} \cup
  {DeleteChar(row, col, ch) : row \in Coords, col \in Coords, ch \in PaneChars} \cup
  {InsertNewline(row, col) : row \in Coords, col \in Coords} \cup
  {DeleteNewline(row, line) : row \in Coords, line \in {<<>>, <<"a">>, <<"a", "b">>}}

Prim_redo(cmd) == PrimCall(EditCommand_redo(cmd, panes[1].buffer))

Prim_undo(cmd) == PrimCall(EditCommand_undo(cmd, panes[1].buffer, overflow_checks))

NextPrim ==
  \/ \E row \in Coords, col \in Coords, ch \in PaneChars : Prim_insert_char(row, col, ch)
  \/ \E row \in Coords, col \in Coords : Prim_delete_char(row, col)
  \/ \E row \in Coords, col \in Coords : Prim_insert_newline(row, col)
  \/ \E row \in Coords : Prim_delete_newline(row)
  \/ \E cmd \in PrimCommands : Prim_redo(cmd)
  \/ \E cmd \in PrimCommands : Prim_undo(cmd)

SpecPrim == InitPrim /\ [][NextPrim]_vars

\* ------------- one pane, with the log of the keys that were dispatched
InitLog ==
  /\ Main
  /\ hist = <<>>
  /\ phase = "log"

\* a key of the active pane; the log gets name
Logged(A, name) ==
  /\ keys < MaxPaneKeys
  /\ keys' = keys + 1
  /\ A
  /\ hist' = Append(hist, name)
  /\ UNCHANGED phase

\* an editing key; the log tells whether execute_command ran (it always pushes)
LoggedEdit(A) ==
  /\ keys < MaxPaneKeys
  /\ keys' = keys + 1
  /\ A
  /\ hist' = Append(hist, IF panes'[1].undo_stack # panes[1].undo_stack
                          THEN "execute"
                          ELSE "none")
  /\ UNCHANGED phase

NextEditLog ==
  \/ \E c \in PaneChars : LoggedEdit(Key_Char(c))
  \/ LoggedEdit(Key_Tab)
  \/ LoggedEdit(Key_Enter)
  \/ LoggedEdit(Key_Backspace)
  \/ Logged(Key_Left, "left")
  \/ Logged(Key_Undo, "undo")
  \/ Logged(Key_Redo, "redo")

SpecEditLog == InitLog /\ [][NextEditLog]_vars

\* ---- one pane: edit, undo, redo and save, with the log of what was done
\* hist gets "changed" when the step pushed to or popped from the undo stack
\* (execute_command, undo and redo do, and nothing else does while a file is
\* not opened) and "saved" when save_file or save_file_as wrote the file
InitSave ==
  /\ Main
  /\ hist = <<>>
  /\ phase = "save"

SaveLogged(A, saved) ==
  /\ keys < MaxPaneKeys
  /\ keys' = keys + 1
  /\ A
  /\ hist' = IF panes'[1].undo_stack # panes[1].undo_stack
             THEN Append(hist, "changed")
             ELSE IF saved THEN Append(hist, "saved") ELSE hist
  /\ UNCHANGED phase

NextSave ==
  \/ \E c \in Chars : SaveLogged(Key_Char(c), FALSE)
  \/ SaveLogged(Key_Undo, FALSE)
  \/ SaveLogged(Key_Redo, FALSE)
  \/ \E write_ok \in BOOLEAN :
       SaveLogged(Key_Save(write_ok), ActivePane.current_file.some /\ write_ok)
  \/ \E c \in NameChars : SaveLogged(Save_Char(c), FALSE)
  \/ SaveLogged(Save_Esc, FALSE)
  \/ \E write_ok \in BOOLEAN :
       SaveLogged(Save_Enter(write_ok), input_buffer # <<>> /\ write_ok)

SpecSave == InitSave /\ [][NextSave]_vars

\* ------ split, close and switch panes, with the log of the keys dispatched
InitSplit ==
  /\ Main
  /\ hist = <<>>
  /\ phase = "split"

NextSplit ==
  \/ \E c \in Chars : Logged(Key_Char(c), "char")
  \/ Logged(Key_SplitHorizontal, "split")
  \/ Logged(Key_SplitVertical, "split")
  \/ Logged(Key_CloseSplit, "close")
  \/ Logged(Key_NextPane, "next")

SpecSplit == InitSplit /\ [][NextSplit]_vars

\* --------------------- highlight_line applied to a line under a profile
Languages == {"Rust", "Python", "JavaScript", "C", "Bash", "Plain"}

\* the characters of the lines: comment markers, quotes, the escape, a digit,
\* the dot, letters of keywords and types ("if", "i8"), and a separator
HlChars == {"/", "*", "#", "\"", "'", "\\", "8", ".", "i", "f", " "}

\* the lines of at most n characters
RECURSIVE HlLines(_)
HlLines(n) ==
  IF n = 0
  THEN {<<>>}
  ELSE LET shorter == HlLines(n - 1)
       IN shorter \cup {Append(l, c) : l \in shorter, c \in HlChars}

\* draw_line_with_syntax is about to be called for a line of a pane with a
\* highlighter of some language
InitHighlight ==
  /\ panes = <<Pane_new>>
  /\ active_pane = 0
  /\ split_mode = "None"
  /\ should_quit = FALSE
  /\ mode = "Normal"
  /\ input_buffer = <<>>
  /\ message = NoMessage
  /\ quit_warning_shown = FALSE
  /\ status = "running"
  /\ overflow_checks = FALSE
  /\ keys = 0
  /\ \E language \in Languages, line \in HlLines(MaxHlLen) :
       hist = <<[language |-> language, line |-> line, tokens |-> <<>>]>>
  /\ phase = "highlight"

\* draw_line_with_syntax: let tokens = highlighter.highlight_line(line)
Highlight ==
  /\ phase = "highlight"
  /\ hist' = <<[hist[1] EXCEPT !.tokens = highlight_line(hist[1].language, hist[1].line)]>>
  /\ phase' = "highlighted"
  /\ UNCHANGED <<panes, active_pane, split_mode, should_quit, mode, input_buffer,
                 message, quit_warning_shown, status, overflow_checks, keys>>

NextHighlight == Highlight

SpecHighlight == InitHighlight /\ [][NextHighlight]_vars

\* ----------- search and find-next on an opened document, with the log of
\* the searches that perform_search ran
SearchChars == {"a", "b", "c"}

\* the content of the file that was opened
SearchContents ==
  {<<"a", "b", "c", "a", "b", "c", NL, "x", "y", "z">>,
   <<"a", "b", NL, "c", "a", "b">>}

\* main with the name of a readable file
InitSearch ==
  /\ active_pane = 0
  /\ split_mode = "None"
  /\ should_quit = FALSE
  /\ mode = "Normal"
  /\ input_buffer = <<>>
  /\ quit_warning_shown = FALSE
  /\ status = "running"
  /\ \E name \in ArgNames, content \in SearchContents :
       panes = <<open_file(Pane_new, name, [ok |-> TRUE, content |-> content]).pane>>
  /\ message = "Opened"
  /\ overflow_checks = FALSE
  /\ keys = 0
  /\ hist = <<>>
  /\ phase = "search"

SearchKey(A) ==
  /\ keys < MaxSearchKeys
  /\ keys' = keys + 1
  /\ A
  /\ UNCHANGED <<hist, phase>>

\* a key that calls perform_search: the log gets the query, the cursor and
\* last_search_pos before the call, and last_search_pos after it
SearchLogged(A, query) ==
  /\ keys < MaxSearchKeys
  /\ keys' = keys + 1
  /\ A
  /\ hist' = IF query # <<>> /\ status' = "running"
             THEN Append(hist, [query |-> query,
                                cursor |-> panes[1].cursor,
                                last |-> panes[1].last_search_pos,
                                result |-> panes'[1].last_search_pos])
             ELSE hist
  /\ UNCHANGED phase

NextSearch ==
  \/ SearchKey(Key_Right)
  \/ SearchKey(Key_Down)
  \/ SearchKey(Key_Search)
  \/ \E c \in SearchChars : SearchKey(Search_Char(c))
  \/ SearchLogged(Search_Enter, input_buffer)
  \/ SearchLogged(Key_FindNext, ActivePane.search_query)

SpecSearch == InitSearch /\ [][NextSearch]_vars

\* ------ one pane: type and move the cursor, with the log of the edge keys
\* where a cursor key has nowhere to go
UpAtEdge == ActivePane.cursor.y = 0

LeftAtEdge == ActivePane.cursor.y = 0 /\ ActivePane.cursor.x = 0

DownAtEdge == ActivePane.cursor.y = line_count(ActivePane.buffer) - 1

RightAtEdge ==
  /\ ActivePane.cursor.y = line_count(ActivePane.buffer) - 1
  /\ ActivePane.cursor.x = Len(LineAt(ActivePane.buffer, ActivePane.cursor.y))

InitMove ==
  /\ Main
  /\ hist = <<>>
  /\ phase = "move"

\* a key of the active pane; the log gets name when the key came at its edge
EdgeLogged(A, name, at_edge) ==
  /\ keys < MaxPaneKeys
  /\ keys' = keys + 1
  /\ A
  /\ hist' = IF at_edge THEN Append(hist, name) ELSE hist
  /\ UNCHANGED phase

NextMove ==
  \/ \E c \in Chars : EdgeLogged(Key_Char(c), "char", FALSE)
  \/ EdgeLogged(Key_Enter, "enter", FALSE)
  \/ EdgeLogged(Key_Up, "up", UpAtEdge)
  \/ EdgeLogged(Key_Left, "left", LeftAtEdge)
  \/ EdgeLogged(Key_Down, "down", DownAtEdge)
  \/ EdgeLogged(Key_Right, "right", RightAtEdge)

SpecMove == InitMove /\ [][NextMove]_vars

\* ------- a line of a document split by insert_newline and joined again by
\* delete_newline
InitSplitJoin ==
  /\ Main
  /\ hist = <<>>
  /\ phase = "build"

\* insert_char calls that build the document
SJ_Build(row, col, ch) ==
  /\ phase = "build"
  /\ Prim_insert_char(row, col, ch)

\* insert_newline(row, col) inside the document; hist keeps the document
\* before the call and the coordinates
SJ_Split(row, col) ==
  /\ phase = "build"
  /\ status = "running"
  /\ row < line_count(panes[1].buffer)
  /\ col <= Len(LineAt(panes[1].buffer, row))
  /\ LET r == insert_newline(panes[1].buffer, row, col)
     IN IF r.panic
        THEN /\ status' = "panicked"
             /\ UNCHANGED <<panes, hist, phase>>
        ELSE /\ panes' = [panes EXCEPT ![1].buffer = r.lines]
             /\ hist' = <<[before |-> panes[1].buffer, row |-> row, col |-> col]>>
             /\ phase' = "split"
             /\ UNCHANGED status
  /\ UNCHANGED <<active_pane, split_mode, should_quit, mode, input_buffer, message,
                 quit_warning_shown, overflow_checks, keys>>

\* delete_newline(row + 1) after the split; hist also keeps what it returns
SJ_Join ==
  /\ phase = "split"
  /\ LET r == delete_newline(panes[1].buffer, hist[1].row + 1)
     IN /\ panes' = [panes EXCEPT ![1].buffer = r.lines]
        /\ hist' = <<hist[1], delete_newline_result(panes[1].buffer, hist[1].row + 1)>>
  /\ phase' = "joined"
  /\ UNCHANGED <<active_pane, split_mode, should_quit, mode, input_buffer, message,
                 quit_warning_shown, status, overflow_checks, keys>>

NextSplitJoin ==
  \/ \E row \in Coords, col \in Coords, ch \in PaneChars : SJ_Build(row, col, ch)
  \/ \E row \in Coords, col \in Coords : SJ_Split(row, col)
  \/ SJ_Join

SpecSplitJoin == InitSplitJoin /\ [][NextSplitJoin]_vars

\* ------------------------------- adjust_scroll on any cursor row and offset
\* hist[1] keeps the cursor row, the offset and the budget of the call
InitScroll ==
  /\ active_pane = 0
  /\ split_mode = "None"
  /\ should_quit = FALSE
  /\ mode = "Normal"
  /\ input_buffer = <<>>
  /\ quit_warning_shown = FALSE
  /\ status = "running"
  /\ message = NoMessage
  /\ overflow_checks \in BOOLEAN
  /\ keys = 0
  /\ \E y \in 0..MaxRow, offset \in 0..MaxRow, budget \in 1..MaxRow :
       /\ panes = <<[Pane_new EXCEPT !.cursor.y = y, !.offset_y = offset]>>
       /\ hist = <<[y |-> y, offset |-> offset, budget |-> budget]>>
  /\ phase = "scroll"

\* pane.adjust_scroll(budget)
Scroll ==
  /\ phase = "scroll"
  /\ panes' = <<adjust_scroll(panes[1], hist[1].budget)>>
  /\ phase' = "scrolled"
  /\ UNCHANGED <<active_pane, split_mode, should_quit, mode, input_buffer, message,
                 quit_warning_shown, status, overflow_checks, keys, hist>>

NextScroll == Scroll

SpecScroll == InitScroll /\ [][NextScroll]_vars

\* ------------------- TextBuffer::search called with any in-bounds start
\* the lines of at most n characters over "a" and "b"
RECURSIVE SearchLines(_)
SearchLines(n) ==
  IF n = 0
  THEN {<<>>}
  ELSE LET shorter == SearchLines(n - 1)
       IN shorter \cup {Append(l, c) : l \in shorter, c \in {"a", "b"}}

\* documents of one or two lines
SearchDocs ==
  {<<l>> : l \in SearchLines(MaxLineLen)} \cup
  {<<l, m>> : l \in SearchLines(MaxLineLen), m \in SearchLines(MaxLineLen)}

\* the non-empty queries of one or two characters
SearchQueries == {q \in SearchLines(MaxLineLen) : Len(q) \in {1, 2}}

\* hist[1] keeps the arguments of the call
InitSearchCall ==
  /\ active_pane = 0
  /\ split_mode = "None"
  /\ should_quit = FALSE
  /\ mode = "Normal"
  /\ input_buffer = <<>>
  /\ quit_warning_shown = FALSE
  /\ status = "running"
  /\ message = NoMessage
  /\ overflow_checks = FALSE
  /\ keys = 0
  /\ \E doc \in SearchDocs, query \in SearchQueries :
       \E start_row \in 0..(Len(doc) - 1) :
         \E start_col \in 0..Len(LineAt(doc, start_row)) :
           /\ panes = <<[Pane_new EXCEPT !.buffer = doc]>>
           /\ hist = <<[query |-> query, start_row |-> start_row, start_col |-> start_col]>>
  /\ phase = "call"

\* buffer.search(query, start_row, start_col); hist[2] keeps what it returned
SearchCall ==
  /\ phase = "call"
  /\ LET res == search(panes[1].buffer, hist[1].query, hist[1].start_row, hist[1].start_col)
     IN /\ status' = IF res.panic THEN "panicked" ELSE status
        /\ hist' = Append(hist, res)
  /\ phase' = "returned"
  /\ UNCHANGED <<panes, active_pane, split_mode, should_quit, mode, input_buffer,
                 message, quit_warning_shown, overflow_checks, keys>>

NextSearchCall == SearchCall

SpecSearchCall == InitSearchCall /\ [][NextSearchCall]_vars

\* ---------------------- push_token applied to an accumulator under a profile
\* the characters of the accumulators: letters of "int", "if", "fn", "in",
\* "i8", and a digit
WordChars == {"i", "n", "t", "f", "8"}

\* the accumulators of at most n characters
RECURSIVE Words(_)
Words(n) ==
  IF n = 0
  THEN {<<>>}
  ELSE LET shorter == Words(n - 1)
       IN shorter \cup {Append(w, c) : w \in shorter, c \in WordChars}

\* highlight_line is about to flush a non-empty accumulator
InitPushToken ==
  /\ panes = <<Pane_new>>
  /\ active_pane = 0
  /\ split_mode = "None"
  /\ should_quit = FALSE
  /\ mode = "Normal"
  /\ input_buffer = <<>>
  /\ message = NoMessage
  /\ quit_warning_shown = FALSE
  /\ status = "running"
  /\ overflow_checks = FALSE
  /\ keys = 0
  /\ \E language \in Languages, word \in Words(MaxWordLen) \ {<<>>} :
       hist = <<[language |-> language, word |-> word, tokens |-> <<>>]>>
  /\ phase = "flush"

\* self.push_token(&mut tokens, current.clone())
PushToken ==
  /\ phase = "flush"
  /\ hist' = <<[hist[1] EXCEPT !.tokens = push_token(hist[1].language, <<>>, hist[1].word)]>>
  /\ phase' = "pushed"
  /\ UNCHANGED <<panes, active_pane, split_mode, should_quit, mode, input_buffer,
                 message, quit_warning_shown, status, overflow_checks, keys>>

NextPushToken == PushToken

SpecPushToken == InitPushToken /\ [][NextPushToken]_vars

\* ------------------- files opened one after the other in the same pane
\* the keys typed into the open prompt: names with and without an extension
OpenNameChars == {"c", ".", "x"}

\* the file names given on the command line: a C file, a Python file, a
\* file whose extension is not known, and a file without extension
OpenArgNames == {<<"c", ".", "c">>, <<"x", ".", "p", "y">>, <<"c", ".", "x">>, <<"x">>}

\* main with the name of a readable file
InitOpen ==
  /\ active_pane = 0
  /\ split_mode = "None"
  /\ should_quit = FALSE
  /\ mode = "Normal"
  /\ input_buffer = <<>>
  /\ quit_warning_shown = FALSE
  /\ status = "running"
  /\ \E name \in OpenArgNames :
       panes = <<open_file(Pane_new, name, [ok |-> TRUE, content |-> <<>>]).pane>>
  /\ message = "Opened"
  /\ overflow_checks = FALSE
  /\ keys = 0
  /\ hist = <<>>
  /\ phase = "open"

\* a key of the open prompt; the log gets the name of each file that
\* open_file was called with and whether the read succeeded
OpenKey(A) ==
  /\ keys < MaxOpenKeys
  /\ keys' = keys + 1
  /\ A
  /\ hist' = IF mode = "OpenPrompt" /\ mode' = "Normal" /\ message' \in {"Opened", "Error opening"}
                  /\ input_buffer # <<>>
             THEN Append(hist, [name |-> input_buffer, ok |-> message' = "Opened"])
             ELSE hist
  /\ UNCHANGED phase

NextOpen ==
  \/ OpenKey(Key_Open)
  \/ \E c \in OpenNameChars : OpenKey(Open_Char(c))
  \/ OpenKey(Open_Backspace)
  \/ OpenKey(Open_Esc)
  \/ \E read \in ReadResults : OpenKey(Open_Enter(read))

SpecOpen == InitOpen /\ [][NextOpen]_vars

\* ================================================================= claims
\* C1: after a sequence of commands executed from an in-bounds cursor, one
\* undo per command restores the lines the document had before the sequence,
\* and one redo per command then restores the lines it had after it.
UndoRedoInverseLaw ==
  /\ (phase = "undo" /\ panes[1].undo_stack = <<>>) => panes[1].buffer = hist[1]
  /\ (phase = "redo" /\ panes[1].redo_stack = <<>>) => panes[1].buffer = hist[Len(hist)]

\* C2: every pane's cursor names an existing row and a column that is at
\* most the length of that row's line.
CursorInBounds ==
  \A i \in 1..Len(panes) :
    /\ panes[i].cursor.y < line_count(panes[i].buffer)
    /\ panes[i].cursor.x <= Len(LineAt(panes[i].buffer, panes[i].cursor.y))

\* C3: after any sequence of execute_command, undo and redo on a pane that
\* started with empty stacks and modified = false, modified is true exactly
\* when the undo stack is non-empty.
ModifiedIffUndoNonEmpty ==
  panes[1].modified <=> (panes[1].undo_stack # <<>>)

ModifiedLawWitness ==
  /\ panes[1].undo_stack # <<>>
  /\ panes[1].redo_stack # <<>>
  /\ panes[1].modified

\* C4: every pane's document has at least one line, whatever was edited,
\* undone, redone or opened.
LineCountFloor ==
  \A i \in 1..Len(panes) : line_count(panes[i].buffer) >= 1

LineCountFloorWitness ==
  \E i \in 1..Len(panes) :
    /\ panes[i].buffer = << <<>> >>
    /\ panes[i].current_file.some
    /\ panes[i].undo_stack # <<>>
    /\ Last(panes[i].undo_stack).kind \in {"DeleteChar", "DeleteNewline"}

\* C5: with two panes, a step that neither splits nor closes a pane leaves
\* the whole state of the inactive pane as it was.
PaneIsolation ==
  [][(Len(panes) = 2 /\ Len(panes') = 2)
       => panes'[2 - active_pane] = panes[2 - active_pane]]_vars

PaneIsolationWitness ==
  /\ Len(panes) = 2
  /\ panes[1].undo_stack # <<>>
  /\ panes[2].undo_stack # <<>>

\* the editing keys: insert character, insert newline, delete before cursor
EditKey ==
  \/ \E c \in PaneChars : Key_Char(c)
  \/ Key_Enter
  \/ Key_Backspace

\* C6: an editing key either changes the document and adds exactly one
\* entry to the undo stack, or leaves document, undo stack, redo stack and
\* modified flag as they were; a command whose forward effect a bounds guard
\* suppresses is not recorded.
EditsAtomic ==
  [][(EditKey /\ status' = "running")
       => LET p == panes[1]
              q == panes'[1]
          IN \/ /\ q.buffer # p.buffer
                /\ Len(q.undo_stack) = Len(p.undo_stack) + 1
                /\ Front(q.undo_stack) = p.undo_stack
             \/ /\ q.buffer = p.buffer
                /\ q.undo_stack = p.undo_stack
                /\ q.redo_stack = p.redo_stack
                /\ q.modified = p.modified]_vars

\* the steps in which a file write or read fails
SaveFails == Key_Save(FALSE) /\ ActivePane.current_file.some

SaveAsFails == Save_Enter(FALSE) /\ input_buffer # <<>>

OpenFails == Open_Enter([ok |-> FALSE, content |-> <<>>]) /\ input_buffer # <<>>

\* C7: a failed write or read during save, save-as or open leaves the main
\* loop running, shows the failure as the message and keeps the panes.
NoFatalErrorPath ==
  [][(SaveFails \/ SaveAsFails \/ OpenFails)
       => /\ status' = "running"
          /\ message' \in {"Error saving", "Error opening"}
          /\ panes' = panes]_vars

\* C8: a failed open leaves the active pane's document, cursor, scroll
\* offset, stacks, file, language and modified flag unchanged; a failed save
\* or save-as leaves its modified flag and file unchanged.
StateUnchangedOnIoError ==
  [][/\ OpenFails =>
          /\ ActivePane'.buffer = ActivePane.buffer
          /\ ActivePane'.cursor = ActivePane.cursor
          /\ ActivePane'.offset_y = ActivePane.offset_y
          /\ ActivePane'.undo_stack = ActivePane.undo_stack
          /\ ActivePane'.redo_stack = ActivePane.redo_stack
          /\ ActivePane'.current_file = ActivePane.current_file
          /\ ActivePane'.language = ActivePane.language
          /\ ActivePane'.modified = ActivePane.modified
     /\ (SaveFails \/ SaveAsFails) =>
          /\ ActivePane'.modified = ActivePane.modified
          /\ ActivePane'.current_file = ActivePane.current_file]_vars

StateUnchangedOnIoErrorWitness ==
  /\ message = "Error opening"
  /\ ActivePane.undo_stack # <<>>
  /\ ActivePane.modified

\* C9: a document primitive, or a command effect built on one, called with
\* any row and column never aborts.
PrimitivesNeverAbort == status # "panicked"

\* C10: with a non-empty undo stack, undo then redo leaves the lines as they
\* were; with a non-empty redo stack, redo then undo leaves them as they were.
UndoThenRedoIdentity ==
  LET p == panes[1]
      u == Pane_undo(p, overflow_checks)
      ur == Pane_redo(u.pane)
      r == Pane_redo(p)
      ru == Pane_undo(r.pane, overflow_checks)
  IN /\ (p.undo_stack # <<>> /\ ~u.panic /\ ~ur.panic) => ur.pane.buffer = p.buffer
     /\ (p.redo_stack # <<>> /\ ~r.panic /\ ~ru.panic) => ru.pane.buffer = p.buffer

\* C11: right after a new command was executed on a pane, also after undos,
\* the pane's redo stack is empty and a redo changes nothing.
RedoInvalidation ==
  (hist # <<>> /\ Last(hist) = "execute")
    => /\ panes[1].redo_stack = <<>>
       /\ Pane_redo(panes[1]) = POk(panes[1])

RedoInvalidationWitness ==
  /\ Len(hist) >= 3
  /\ hist[Len(hist) - 2] = "execute"
  /\ hist[Len(hist) - 1] = "undo"
  /\ hist[Len(hist)] = "execute"
  /\ panes[1].redo_stack = <<>>

\* C12: in every reachable pane state, also after a successful save or
\* save-as, modified is true whenever the undo stack is non-empty.
ModifiedWheneverUndoNonEmpty ==
  \A i \in 1..Len(panes) : panes[i].undo_stack # <<>> => panes[i].modified

\* C12 as amended: modified is true whenever the undo stack is non-empty and
\* a command was executed, undone or redone after the pane's last successful
\* save or save-as (or the pane was never saved).
ModifiedUnlessJustSaved ==
  (panes[1].undo_stack # <<>> /\ (hist = <<>> \/ Last(hist) # "saved"))
    => panes[1].modified

ModifiedUnlessJustSavedWitness ==
  /\ Len(hist) >= 3
  /\ hist[Len(hist) - 2] = "changed"
  /\ hist[Len(hist) - 1] = "saved"
  /\ hist[Len(hist)] = "changed"
  /\ panes[1].undo_stack # <<>>
  /\ panes[1].modified

\* C13: after any sequence of split, close-split and next-pane keys there are
\* 1 or 2 panes and active_pane names one of them; a split requested with two
\* panes changes neither the panes nor the split mode.
PaneCountBound ==
  /\ [](Len(panes) \in {1, 2} /\ active_pane < Len(panes))
  /\ [][((Key_SplitHorizontal \/ Key_SplitVertical) /\ Len(panes) = 2)
          => (panes' = panes /\ split_mode' = split_mode)]_vars

PaneCountBoundWitness ==
  /\ Len(hist) >= 2
  /\ hist[Len(hist) - 1] = "split"
  /\ hist[Len(hist)] = "split"
  /\ Len(panes) = 2

\* C14: split mode is None exactly when there is one pane.
SplitModeConsistent ==
  (split_mode = "None") <=> (Len(panes) = 1)

SplitModeConsistentWitness ==
  /\ Len(hist) >= 3
  /\ hist[Len(hist) - 2] = "close"
  /\ hist[Len(hist) - 1] = "split"
  /\ hist[Len(hist)] = "close"
  /\ split_mode = "None"
  /\ Len(panes) = 1

\* C15: with two panes close_split leaves exactly the pane that was inactive,
\* unchanged, and a valid active_pane; with one pane it changes nothing.
CloseSplitRemovesActive ==
  [][Key_CloseSplit
       => IF Len(panes) = 2
          THEN /\ panes' = <<panes[2 - active_pane]>>
               /\ active_pane' = 0
          ELSE /\ panes' = panes
               /\ active_pane' = active_pane
               /\ split_mode' = split_mode]_vars

CloseSplitRemovesActiveWitness ==
  /\ Len(hist) >= 4
  /\ hist[Len(hist) - 3] = "split"
  /\ hist[Len(hist) - 2] = "char"
  /\ hist[Len(hist) - 1] = "next"
  /\ hist[Len(hist)] = "close"
  /\ Len(panes) = 1
  /\ panes[1].undo_stack # <<>>

\* the texts of the tokens, one after the other
RECURSIVE ConcatTexts(_)
ConcatTexts(tokens) ==
  IF tokens = <<>> THEN <<>> ELSE Head(tokens).text \o ConcatTexts(Tail(tokens))

\* C16: for every profile and line, the texts of the tokens highlight_line
\* returns, concatenated in order, are the line.
ClassifierCoverage ==
  phase = "highlighted" => ConcatTexts(hist[1].tokens) = hist[1].line

ClassifierCoverageWitness ==
  /\ phase = "highlighted"
  /\ hist[1].language # "Plain"
  /\ Len(hist[1].tokens) >= 3
  /\ \E k \in 1..Len(hist[1].tokens) : hist[1].tokens[k].type = "String"
  /\ hist[1].tokens[Len(hist[1].tokens)].type = "Comment"

\* the document and the query of the wrap-around scenario
ScenarioDoc == << <<"a", "b", "c", "a", "b", "c">>, <<"x", "y", "z">> >>

ScenarioQuery == <<"a", "b", "c">>

\* the searches logged so far are searches for "abc" in the scenario's
\* document, the first one from cursor (0,0) with no previous match
InScenario ==
  /\ panes[1].buffer = ScenarioDoc
  /\ hist # <<>>
  /\ \A k \in 1..Len(hist) : hist[k].query = ScenarioQuery
  /\ hist[1].cursor = [x |-> 0, y |-> 0]
  /\ ~hist[1].last.some

\* C17: in ["abcabc", "xyz"] from cursor (0,0) with no previous match, the
\* search for "abc" finds (0,0), the next one (0,3), and the one after that
\* wraps to (0,0).
SearchWraparoundScenario ==
  InScenario
    => /\ hist[1].result = Some(<<0, 0>>)
       /\ Len(hist) >= 2 => hist[2].result = Some(<<0, 3>>)
       /\ Len(hist) >= 3 => hist[3].result = Some(<<0, 0>>)

SearchWraparoundScenarioWitness ==
  /\ InScenario
  /\ Len(hist) = 3
  /\ panes[1].last_search_pos = Some(<<0, 0>>)
  /\ panes[1].cursor = [x |-> 0, y |-> 0]

\* the cursor of the active pane names an existing row and column
ActiveCursorInBounds ==
  /\ ActivePane.cursor.y < line_count(ActivePane.buffer)
  /\ ActivePane.cursor.x <= Len(LineAt(ActivePane.buffer, ActivePane.cursor.y))

\* C18: with an in-bounds cursor, Up on row 0, Left at (0,0), Down on the
\* last row and Right at the end of the last line leave the cursor and the
\* scroll offset as they were.
CursorClampAtEdges ==
  [][(/\ ActiveCursorInBounds
      /\ \/ Key_Up /\ UpAtEdge
         \/ Key_Left /\ LeftAtEdge
         \/ Key_Down /\ DownAtEdge
         \/ Key_Right /\ RightAtEdge)
       => /\ ActivePane'.cursor = ActivePane.cursor
          /\ ActivePane'.offset_y = ActivePane.offset_y]_vars

CursorClampAtEdgesWitness ==
  /\ \A name \in {"up", "left", "down", "right"} :
       \E k \in 1..Len(hist) : hist[k] = name
  /\ line_count(ActivePane.buffer) >= 2
  /\ ActiveCursorInBounds

\* C19: for row < line_count and col <= length of line row, insert_newline
\* (row, col) leaves the text before col on line row and the text from col
\* on line row + 1, and delete_newline(row + 1) then restores the document
\* and returns the text that was moved.
SplitJoinRoundTrip ==
  /\ phase = "split" =>
       LET line == LineAt(hist[1].before, hist[1].row)
       IN /\ status = "running"
          /\ line_count(panes[1].buffer) = line_count(hist[1].before) + 1
          /\ LineAt(panes[1].buffer, hist[1].row) = SubSeq(line, 1, hist[1].col)
          /\ LineAt(panes[1].buffer, hist[1].row + 1) = SliceFrom(line, hist[1].col)
  /\ phase = "joined" =>
       /\ panes[1].buffer = hist[1].before
       /\ hist[2] = Some(SliceFrom(LineAt(hist[1].before, hist[1].row), hist[1].col))

SplitJoinRoundTripWitness ==
  /\ phase = "joined"
  /\ hist[1].col > 0
  /\ hist[1].col < Len(LineAt(hist[1].before, hist[1].row))
  /\ hist[1].row + 1 < line_count(hist[1].before)
  /\ hist[2].some

\* the commands of the pane in the order they were executed
RECURSIVE Reverse(_)
Reverse(s) == IF s = <<>> THEN <<>> ELSE Append(Reverse(Tail(s)), Head(s))

ExecutedCommands == panes[1].undo_stack \o Reverse(panes[1].redo_stack)

\* the commands are InsertChar at (0,0), (0,1), ..., (0,n-1)
IsTyping(cmds) ==
  \A k \in 1..Len(cmds) :
    cmds[k].kind = "InsertChar" /\ cmds[k].row = 0 /\ cmds[k].col = k - 1

\* the characters of the first n commands
TypedText(cmds, n) == [k \in 1..n |-> cmds[k].ch]

\* C20: from a single empty line, n InsertChar commands at (0,0) .. (0,n-1)
\* give one line of the n characters in order; each undo removes the last of
\* them, and after n undos the document is the single empty line, the undo
\* stack is empty and modified is false.
TypeThenUndo ==
  (/\ hist[1] = << <<>> >>
   /\ ExecutedCommands # <<>>
   /\ IsTyping(ExecutedCommands)
   /\ phase \in {"exec", "undo"})
    => /\ status = "running"
       /\ panes[1].buffer =
            <<TypedText(ExecutedCommands, Len(panes[1].undo_stack))>>
       /\ panes[1].undo_stack = <<>> =>
            (panes[1].buffer = << <<>> >> /\ ~panes[1].modified)

TypeThenUndoWitness ==
  /\ phase = "undo"
  /\ hist[1] = << <<>> >>
  /\ panes[1].undo_stack = <<>>
  /\ Len(panes[1].redo_stack) = 3
  /\ IsTyping(ExecutedCommands)
  /\ \E k \in 1..3 : ExecutedCommands[k].ch = "a"
  /\ \E k \in 1..3 : ExecutedCommands[k].ch = "b"

\* C21: when Backspace at column 0 of a row r > 0 executed DeleteNewline, the
\* undo that follows gives back the document as it was before the join (line
\* r-1 and line r with their own text, every other line untouched) and does
\* not abort, whatever the lengths of the lines.
JoinUndoRestoresDocument ==
  LET p == panes[1]
  IN /\ (/\ phase = "undo"
         /\ Len(p.redo_stack) = 1
         /\ p.redo_stack[1].kind = "DeleteNewline")
          => p.buffer = hist[Len(hist) - 1]
     /\ (/\ phase = "undo"
         /\ p.redo_stack = <<>>
         /\ p.undo_stack # <<>>
         /\ Last(p.undo_stack).kind = "DeleteNewline")
          => status # "panicked"

\* C22: with a terminal height that leaves at least one visible row, after
\* every action of the editor the cursor row of the active pane lies inside
\* the window that starts at offset_y and has as many rows as
\* calculate_visible_lines gives for the current split mode.
CursorStaysInView ==
  (status = "running" /\ VisibleLines >= 1)
    => /\ ActivePane.offset_y <= ActivePane.cursor.y
       /\ ActivePane.cursor.y < ActivePane.offset_y + VisibleLines

\* C23: adjust_scroll moves the offset as little as possible: to the cursor
\* row when the cursor is above the window, to cursor row - budget + 1 when
\* it is at or below the window's end, and not at all otherwise; afterwards
\* the cursor row is inside the window, the cursor itself is untouched, and
\* the subtraction of the scroll-down branch never goes below zero.
AdjustScrollMinimalMotion ==
  LET in == hist[1]
      new == panes[1].offset_y
  IN /\ phase = "scroll" => ~adjust_scroll_underflows(panes[1], in.budget)
     /\ phase = "scrolled"
          => /\ in.y < in.offset => new = in.y
             /\ in.y >= in.offset + in.budget => new = in.y - in.budget + 1
             /\ (in.offset <= in.y /\ in.y < in.offset + in.budget) => new = in.offset
             /\ new <= in.y /\ in.y < new + in.budget
             /\ new >= 0
             /\ panes[1].cursor.y = in.y

\* adjust_scroll scrolled down to a row that is not the first
AdjustScrollMinimalMotionWitness ==
  /\ phase = "scrolled"
  /\ hist[1].y >= hist[1].offset + hist[1].budget
  /\ hist[1].budget > 1
  /\ panes[1].offset_y = hist[1].y - hist[1].budget + 1
  /\ panes[1].offset_y > hist[1].offset

\* C24: a vertical movement (Up, Down, PageUp, PageDown) that starts from a
\* cursor inside the document and changes the row keeps the column when the
\* destination line is at least that long, and otherwise sets the column to
\* the length of the destination line.
VerticalColumnRule ==
  [][((Key_Up \/ Key_Down \/ Key_PageUp \/ Key_PageDown)
        /\ ActiveCursorInBounds
        /\ ActivePane'.cursor.y # ActivePane.cursor.y)
       => LET dest_len == line_len_or_0(ActivePane'.buffer, ActivePane'.cursor.y)
          IN ActivePane'.cursor.x = IF ActivePane.cursor.x <= dest_len
                                    THEN ActivePane.cursor.x
                                    ELSE dest_len]_vars

\* the (row, col) positions where query occurs in lines
Occurrences(lines, query) ==
  UNION {{<<row, col>> : col \in {c \in 0..Len(LineAt(lines, row)) :
                                    /\ c + Len(query) <= Len(LineAt(lines, row))
                                    /\ SubSeq(LineAt(lines, row), c + 1, c + Len(query)) = query}}
         : row \in 0..(Len(lines) - 1)}

\* (row, col) order
PosBefore(a, b) == a[1] < b[1] \/ (a[1] = b[1] /\ a[2] < b[2])

FirstPos(S) == CHOOSE m \in S : \A n \in S : n = m \/ PosBefore(m, n)

\* the occurrence that follows pos in cyclic (row, col) order
CyclicNext(S, pos) ==
  LET later == {m \in S : PosBefore(pos, m)}
  IN IF later # {} THEN FirstPos(later) ELSE FirstPos(S)

\* C25: on a document that is not edited, a search or find-next that follows
\* a hit for the same query is never "not found": it lands on the occurrence
\* that follows the previous hit in cyclic (row, col) order, so k advances
\* through k occurrences return to the first hit.
FindNextCycles ==
  \A i \in 1..(Len(hist) - 1) :
    (hist[i].result.some /\ hist[i + 1].query = hist[i].query)
      => hist[i + 1].result =
           Some(CyclicNext(Occurrences(panes[1].buffer, hist[i].query), hist[i].result.v))

\* C26 as stated: an occurrence that begins exactly at the start position is
\* returned only when there is no other occurrence in the document.
StartMatchOnlyOnWrap ==
  (/\ phase = "returned"
   /\ hist[2] = Found(hist[1].start_row, hist[1].start_col))
    => Occurrences(panes[1].buffer, hist[1].query)
         = {<<hist[1].start_row, hist[1].start_col>>}

\* C26: an occurrence that begins exactly at the start position is returned
\* by the forward pass whatever other occurrences exist, and an occurrence
\* returned from before the start position ends at or before it.
StartMatchReturnedFirst ==
  phase = "returned"
    => LET start == <<hist[1].start_row, hist[1].start_col>>
           res == hist[2]
       IN /\ start \in Occurrences(panes[1].buffer, hist[1].query)
               => res = Found(start[1], start[2])
          /\ (res.found /\ PosBefore(<<res.row, res.col>>, start))
               => \/ res.row < start[1]
                  \/ res.col + Len(hist[1].query) <= start[2]

\* search returned the occurrence at its start position although the
\* document has another occurrence after it and one before it
StartMatchReturnedFirstWitness ==
  /\ phase = "returned"
  /\ hist[2] = Found(hist[1].start_row, hist[1].start_col)
  /\ \E m \in Occurrences(panes[1].buffer, hist[1].query) :
       PosBefore(<<hist[1].start_row, hist[1].start_col>>, m)
  /\ \E m \in Occurrences(panes[1].buffer, hist[1].query) :
       PosBefore(m, <<hist[1].start_row, hist[1].start_col>>)

\* C27: for a non-empty query and an in-bounds start position, search
\* returns "not found" only when no line of the document contains the query,
\* and a position it returns is one where the query occurs.
SearchComplete ==
  phase = "returned"
    => LET occ == Occurrences(panes[1].buffer, hist[1].query)
           res == hist[2]
       IN /\ ~res.panic
          /\ ~res.found => occ = {}
          /\ res.found => <<res.row, res.col>> \in occ

\* the characters that open a string
QuoteChars == {"\"", "'", Backtick}

\* the 0-based indices of line where a comment starts and no quote stands
\* before, so that the scanner is certainly outside a string there
OutsideMarkers(language, line) ==
  {i \in 0..(Len(line) - 1) :
     /\ is_comment_start(language, line[i + 1], Peek(line, i))
     /\ \A k \in 1..i : line[k] \notin QuoteChars}

FirstMarker(language, line) ==
  CHOOSE i \in OutsideMarkers(language, line) :
    \A j \in OutsideMarkers(language, line) : i <= j

\* C28: for a profile other than Plain, when a comment starts outside a
\* string, the tokens end with one Comment token that holds the line from
\* the first comment marker to its end, and no other token is a Comment.
CommentsLineTerminal ==
  (/\ phase = "highlighted"
   /\ hist[1].language # "Plain"
   /\ OutsideMarkers(hist[1].language, hist[1].line) # {})
    => LET tokens == hist[1].tokens
           first == FirstMarker(hist[1].language, hist[1].line)
       IN /\ tokens # <<>>
          /\ Last(tokens) = Token(SliceFrom(hist[1].line, first), "Comment")
          /\ Cardinality({k \in 1..Len(tokens) : tokens[k].type = "Comment"}) = 1

\* C29: a flushed accumulator becomes one token whose category is Type when
\* the word is in the profile's type set, otherwise Keyword when it is in
\* the keyword set, otherwise Number when every character is a digit or a
\* dot, otherwise Normal; a word in both sets ("int" for C) is a Type.
IdentifierPriority ==
  phase = "pushed"
    => LET language == hist[1].language
           word == hist[1].word
           expected == IF Str(word) \in types(language) THEN "Type"
                       ELSE IF Str(word) \in keywords(language) THEN "Keyword"
                       ELSE IF AllNumericOrDot(word) THEN "Number"
                       ELSE "Normal"
       IN hist[1].tokens = <<Token(word, expected)>>

\* the category of the token that holds the character at index pos (0-based)
\* of the line, "None" when the tokens do not reach that far
RECURSIVE TypeAt(_, _)
TypeAt(tokens, pos) ==
  IF tokens = <<>>
  THEN "None"
  ELSE IF pos < Len(Head(tokens).text)
       THEN Head(tokens).type
       ELSE TypeAt(Tail(tokens), pos - Len(Head(tokens).text))

\* the line opens a string with its first character, and the string is still
\* open at index i: a comment would start there
MarkerInOpenString(language, line, i) ==
  /\ line[1] \in QuoteChars
  /\ i >= 1
  /\ is_comment_start(language, line[i + 1], Peek(line, i))
  /\ \A k \in 2..i : line[k] # line[1]

\* the line begins with a comment marker and has a quote at index j
QuoteInComment(language, line, j) ==
  /\ is_comment_start(language, line[1], Peek(line, 0))
  /\ j >= 1
  /\ line[j + 1] \in QuoteChars

\* the scanner was inside a string and inside a comment at once
BothSubStates(language, line) ==
  LET st == HlLoop(language, line, 0, HlStart)
  IN st.in_string /\ st.in_comment

\* C30: the scanner is never inside a string and inside a comment at once; a
\* comment marker inside an open string stays in the String token, and a
\* quote inside a comment stays in the Comment token and starts no string.
ScannerPriority ==
  (phase = "highlighted" /\ hist[1].language # "Plain")
    => LET language == hist[1].language
           line == hist[1].line
           tokens == hist[1].tokens
       IN /\ ~BothSubStates(language, line)
          /\ \A i \in 0..(Len(line) - 1) :
               MarkerInOpenString(language, line, i) => TypeAt(tokens, i) = "String"
          /\ \A j \in 0..(Len(line) - 1) :
               QuoteInComment(language, line, j) => TypeAt(tokens, j) = "Comment"

\* the profile the extension of name maps to, Plain when name has none
ProfileOf(name) ==
  LET ext == path_extension(name)
  IN IF ext.some THEN from_extension(ext.v) ELSE "Plain"

\* C31: after a successful open_file the language of the active pane is the
\* profile mapped from the extension of the opened file, and Plain when the
\* name has no recognised extension or no extension at all, whatever the
\* pane held before.
LanguageFollowsExtension ==
  (/\ hist # <<>>
   /\ Last(hist).ok
   /\ mode = "Normal"
   /\ ActivePane.current_file = Some(Last(hist).name))
    => ActivePane.language = ProfileOf(Last(hist).name)

\* a pane that holds nothing: one empty line, cursor and offset at the
\* origin, no history, no file, no search, Plain
FreshPane ==
  [buffer |-> << <<>> >>,
   cursor |-> [x |-> 0, y |-> 0],
   offset_y |-> 0,
   undo_stack |-> <<>>,
   redo_stack |-> <<>>,
   current_file |-> [some |-> FALSE, v |-> <<>>],
   modified |-> FALSE,
   search_query |-> <<>>,
   last_search_pos |-> [some |-> FALSE, v |-> <<>>],
   language |-> "Plain"]

\* C32: a split with fewer than two panes appends a pane that holds nothing,
\* whatever the existing pane holds; the existing pane and the active index
\* stay as they were.
SplitCreatesFreshPane ==
  [][((Key_SplitHorizontal \/ Key_SplitVertical) /\ Len(panes) < 2)
       => /\ panes' = Append(panes, FreshPane)
          /\ active_pane' = active_pane]_vars

\* an edited pane was split
SplitCreatesFreshPaneWitness ==
  /\ Len(hist) >= 2
  /\ Last(hist) = "split"
  /\ \A k \in 1..(Len(hist) - 1) : hist[k] = "char"
  /\ Len(panes) = 2
  /\ panes[1].modified
  /\ panes[1].undo_stack # <<>>
  /\ panes[1].buffer # << <<>> >>
  /\ panes[2] = FreshPane
  /\ split_mode # "None"

\* C33: next_pane sets the active index to (active_pane + 1) mod the number
\* of panes and changes no pane: with two panes it goes to the other pane,
\* so two calls in a row come back, and with one pane nothing changes.
NextPaneCycles ==
  [][Key_NextPane
       => /\ active_pane' = (active_pane + 1) % Len(panes)
          /\ Len(panes) = 2 => active_pane' = 1 - active_pane
          /\ Len(panes) = 1 => active_pane' = active_pane
          /\ panes' = panes
          /\ split_mode' = split_mode]_vars

\* with two panes, two next_pane calls in a row, back on the first pane
NextPaneCyclesWitness ==
  /\ Len(hist) >= 3
  /\ hist[Len(hist)] = "next"
  /\ hist[Len(hist) - 1] = "next"
  /\ hist[Len(hist) - 2] = "split"
  /\ Len(panes) = 2
  /\ active_pane = 0

\* C34: Ctrl-Q with a modified active pane and no warning shown yet shows
\* the warning and leaves should_quit alone; any other Ctrl-Q sets
\* should_quit; and should_quit only ever becomes true by a Ctrl-Q, with the
\* warning already shown when the active pane is modified.
QuitConfirmation ==
  /\ [][Key_Quit
          => IF ActivePane.modified /\ ~quit_warning_shown
             THEN /\ should_quit' = should_quit
                  /\ quit_warning_shown'
                  /\ message' = "File modified"
             ELSE should_quit']_vars
  /\ [][(~should_quit /\ should_quit')
          => /\ Key_Quit
             /\ ActivePane.modified => quit_warning_shown]_vars

\* a modified pane, the warning, then the second Ctrl-Q
QuitConfirmationWitness ==
  /\ should_quit
  /\ ActivePane.modified
  /\ quit_warning_shown
  /\ message = "File modified"
  /\ status = "running"

====
